---- MODULE Spec2Model ----
(***************************************************************************)
(* wemux: loopback capture -> distribution ring -> renderer workers, with  *)
(* the device monitor, the volume follower and the AudioEngine facade.     *)
(*                                                                         *)
(* The specifications share the variables of this module:                  *)
(*   RingSpec     the ring of audio/buffer.rs with one writer and one      *)
(*                reader interleaved at the granularity of the byte loops; *)
(*   Spec         the life cycle of the engine of audio/engine.rs: start,  *)
(*                its failures, the worker threads, stop, start again;     *)
(*   CtlSpec      the started engine: host notifications, the monitor      *)
(*                thread, its channels, the renderer-controls mutex,       *)
(*                pause/resume, the caller's event channel, stop;          *)
(*   FairCtlSpec  CtlSpec with the weak fairness of the OS threads;        *)
(*   PipeSpec     the started engine's data path: capture loop, ring,      *)
(*                render loops, pause/resume.                              *)
(* Sizes are scaled down (a ring of 4 bytes for 500 ms of audio, a word of *)
(* 2^UsizeBits values for usize); every scaled size is a named definition. *)
(***************************************************************************)
EXTENDS Integers, Sequences, FiniteSets, TLC

\* ------------------------------------------------------------------ sizes
\* bytes requested from RingBuffer::new (engine.rs:188, scaled)
RingRequest == 3
\* width of usize in bits (scaled; positions wrap at 2^UsizeBits)
UsizeBits == 4
\* total number of bytes the writer of RingSpec hands to write()
MaxStream == 6
\* longest slice handed to one write() or read() in RingSpec
MaxLen == 5

RECURSIVE Pow2(_)
Pow2(n) == IF n = 0 THEN 1 ELSE 2 * Pow2(n - 1)

UsizeMod == Pow2(UsizeBits)

Min(a, b) == IF a <= b THEN a ELSE b

\* usize::wrapping_add / wrapping_sub
WrappingAdd(a, b) == (a + b) % UsizeMod
WrappingSub(a, b) == (a - b + UsizeMod) % UsizeMod

\* the & operator on usize
RECURSIVE BitAnd(_, _)
BitAnd(a, b) ==
    IF a = 0 \/ b = 0 THEN 0
    ELSE (a % 2) * (b % 2) + 2 * BitAnd(a \div 2, b \div 2)

\* usize::next_power_of_two: when the result does not fit in usize the
\* call panics in a build with overflow checks and returns 0 in one without
RECURSIVE Pow2AtLeast(_, _)
Pow2AtLeast(p, n) == IF p >= n THEN p ELSE Pow2AtLeast(2 * p, n)
NextPowerOfTwoOverflows(n) == Pow2AtLeast(1, n) >= UsizeMod
NextPowerOfTwo(n) == IF NextPowerOfTwoOverflows(n) THEN 0 ELSE Pow2AtLeast(1, n)

\* RingBuffer::new: capacity and mask
Capacity == NextPowerOfTwo(RingRequest)
Mask == Capacity - 1

\* the endpoints of the host
Endpoints == {"e1", "e2"}
\* the reader RingSpec exercises
RingReader == "e1"

VARIABLES
    \* ---- audio/buffer.rs
    buffer,      \* RingBuffer.buffer: slot index -> byte
    write_pos,   \* RingBuffer.write_pos (published writer position)
    read_pos,    \* ReaderState.read_pos of each endpoint's reader
    ring_new,    \* RingBuffer::new: the size requested, how the call ended,
                 \* the capacity and mask it stored, and the last index
                 \* (pos & mask) computed with them
    \* ---- RingSpec: the byte loops and the history of the stream
    wr,          \* a write() in progress: its data and the loop index i;
                 \* ret is what the last write() returned
    rd,          \* a read() in progress: buf.len(), to_read, the loop index
                 \* i, buf; ret is what the last read() returned; checked:
                 \* the caller has made the lag check of the render loop
    created,     \* ReaderState::new has run
    written,     \* history: every byte handed to write(), in order
    published,   \* history: number of bytes of `written` already published
    subAt,       \* history: `published` when the reader was created/caught up
    readLog,     \* history: concatenation of the reader's returned bytes
    lapped,      \* history: writer - reader > capacity was true since subAt
    \* ---- AudioEngine fields (audio/engine.rs:102-123)
    config,             \* EngineConfig, fixed by AudioEngine::new
    state,              \* EngineState
    stop_flag,          \* Arc<AtomicBool> shared with every worker
    capture_handle,     \* Option<JoinHandle>: TRUE when Some
    volume_handle,
    monitor_handle,
    render_handles,     \* Vec<JoinHandle>: the endpoint ids, in spawn order
    device_monitor,     \* Option<DeviceMonitor>: TRUE when Some
    renderer_controls,  \* the keys of the HashMap<String, RendererControl>
    paused,             \* RendererControl.paused of each endpoint
    device_names,       \* the keys of the device_names map
    current_default_id, \* Option<String>
    event_tx,           \* Option<Sender<EngineEvent>>: TRUE when Some
    ring_set,           \* AudioEngine.buffer is Some (format is set with it)
    master_id,          \* ClockSync.master_id
    slaves,             \* the keys of ClockSync.slaves
    slave_state,        \* the SlaveState of each key of ClockSync.slaves
    volume_level,       \* VolumeLevel: the master volume cell
    \* ---- the thread calling the engine (tray/controller.rs run_loop)
    apiPc,       \* the call in progress and its position
    apiArg,      \* the device id argument of pause/resume
    targets,     \* start(): target_devices still to be opened
    lastResult,  \* the result the last finished call returned
    \* ---- worker threads
    capPc,       \* capture_thread
    capStarted,  \* LoopbackCapture.started of the thread's capture
    volPc,       \* volume_tracking_thread
    monPc,       \* device_monitor_thread
    monEvent,    \* the device id of the DefaultChanged event being handled
    rendPc,      \* render_thread of each endpoint
    rstate,      \* HdmiRenderer.state of each endpoint's renderer
    controlsLock,\* holder of the renderer_controls mutex
    \* ---- channels
    device_events,  \* bounded DeviceEvent channel (callback -> monitor)
    capture_cmds,   \* bounded CaptureCommand channel: queued Reinitialize
    volume_events,  \* bounded DeviceEvent channel (monitor -> volume)
    sink,           \* the caller's bounded EngineEvent channel
    \* ---- audio host
    callbackArmed,  \* the notification callback can still deliver events
    hostMuted,      \* mute state of the default endpoint
    audioLeft,      \* non-empty capture packets the host will still deliver
    lastBatch,      \* history: what the last read_frames claimed and wrote
    lastSubmit,     \* history: what a renderer last passed to write_frames
                    \* and the result, or the overrun it last logged
    capture_buffer  \* the host capture buffer: the frames of the packet the
                    \* capture thread holds (GetBuffer without ReleaseBuffer
                    \* yet), its silent flag, the releases since the claim

ringVars == <<buffer, write_pos, read_pos>>
ringStepVars == <<wr, rd, created, written, published, subAt, readLog, lapped>>
engineVars == <<ring_new, config, state, stop_flag, capture_handle, volume_handle,
                monitor_handle, render_handles, device_monitor,
                renderer_controls, paused, device_names, current_default_id,
                event_tx, ring_set, master_id, slaves, slave_state, volume_level>>
apiVars == <<apiPc, apiArg, targets, lastResult>>
workerVars == <<capPc, capStarted, volPc, monPc, monEvent, rendPc, rstate,
                controlsLock>>
chanVars == <<device_events, capture_cmds, volume_events, sink>>
hostVars == <<callbackArmed, hostMuted, audioLeft, lastBatch, lastSubmit,
              capture_buffer>>
pipeVars == <<engineVars, apiVars, workerVars, chanVars, hostVars>>

vars == <<ringVars, ringStepVars, pipeVars>>

\* ------------------------------------------------------------------- ring
NoWrite == [data |-> <<>>, i |-> 0, active |-> FALSE, ret |-> 0]
NoRead == [len |-> 0, to_read |-> 0, i |-> 0, buf |-> <<>>, active |-> FALSE,
           ret |-> 0, checked |-> FALSE]

EmptyRing == [s \in 0..(Capacity - 1) |-> 0]

\* before RingBuffer::new is called
NoRing == [request |-> 0, outcome |-> "none", capacity |-> 0, mask |-> 0,
           pos |-> 0, index |-> 0, indexed |-> FALSE]
\* the ring start() builds (engine.rs:188-189)
EngineRing == [NoRing EXCEPT !.request = RingRequest, !.outcome = "built",
                             !.capacity = Capacity, !.mask = Mask]

\* the slot a position maps to: (pos + i) & self.mask
Slot(pos, i) == BitAnd(WrappingAdd(pos, i), Mask)

\* RingBuffer::write, the loop: store data[1..n] from position pos
RECURSIVE StoreBytes(_, _, _, _)
StoreBytes(buf, pos, data, n) ==
    IF n = 0 THEN buf
    ELSE [StoreBytes(buf, pos, data, n - 1)
            EXCEPT ![Slot(pos, n - 1)] = data[n]]

\* RingBuffer::write as one call: <<buffer, write_pos>> afterwards
RingWrite(buf, wpos, data) ==
    <<StoreBytes(buf, wpos, data, Len(data)), WrappingAdd(wpos, Len(data))>>

\* a read that forgets the capacity: buf.len().min(available)
ToReadUncapped(len, wpos, rpos) == Min(len, WrappingSub(wpos, rpos))

\* a read that takes buf.len() bytes whatever the writer has published
ToReadAll(len, wpos, rpos) == len

\* RingBuffer::read: the number of bytes a read of len bytes returns
ToRead(len, wpos, rpos) == Min(Min(len, WrappingSub(wpos, rpos)), Capacity)

\* RingBuffer::read: the bytes copied out
RingReadBytes(buf, rpos, n) == [k \in 1..n |-> buf[Slot(rpos, k - 1)]]

\* an available() that forgets to clamp to the capacity
AvailableUnclamped(wpos, rpos) == WrappingSub(wpos, rpos)

\* RingBuffer::available
Available(wpos, rpos) == Min(WrappingSub(wpos, rpos), Capacity)

\* a lag test that never finds a reader lagging
NeverLagging(wpos, rpos) == FALSE

\* RingBuffer::is_lagging
IsLagging(wpos, rpos) == WrappingSub(wpos, rpos) > Capacity

\* the k-th byte (1-based) the writer of RingSpec is given: non-zero and
\* different for every position of the stream
StreamByte(k) == ((k - 1) % 255) + 1

\* ----------------------------------------------------- host and config
\* the default endpoint when it is none of the adopted ones
OtherDevice == "e0"
NoDevice == "none"
DeviceIds == Endpoints \cup {OtherDevice}

\* the active render endpoints the host enumerates, in its order: both,
\* or the second alone once the first is unplugged
HostDevices ==
    << [id |-> "e1", name |-> "hdmi out"],
       [id |-> "e2", name |-> "speakers"] >>
HostEnumerations == {HostDevices, Tail(HostDevices)}

\* str::contains on the strings of the model: the substrings that the
\* patterns of the model can name
SubstringsOf(str) ==
    CASE str = "e1" -> {"e1", "e"}
      [] str = "e2" -> {"e2", "e"}
      [] str = "hdmi out" -> {"hdmi out", "hdmi", "out"}
      [] str = "speakers" -> {"speakers"}
      [] OTHER -> {str}
Contains(str, pat) == pat \in SubstringsOf(str)

\* device/filter.rs: HdmiFilter::is_hdmi_device || is_hdmi_device_id
IsHdmi(d) ==
    \/ \E kw \in {"hdmi", "nvidia high definition audio",
                  "intel(r) display audio", "amd high definition audio",
                  "display audio"} : Contains(d.name, kw)
    \/ Contains(d.id, "hdmi") \/ Contains(d.id, "display")

\* DeviceEnumerator::enumerate_hdmi_devices(...).unwrap_or_default()
EnumerateHdmiOrDefault(all) == SelectSeq(all, IsHdmi)

\* Option<Vec<String>>: <<>> is None, <<ids>> is Some(ids)
NoList == <<>>
Some(ids) == <<ids>>

\* AudioEngine::get_target_devices when the enumeration succeeds with the
\* endpoints all
GetTargetDevices(cfg, all) ==
    LET Match(d, pats) == \E p \in pats : Contains(d.id, p) \/ Contains(d.name, p)
        Allowed(d) == Match(d, cfg.device_ids[1])
        devices ==
            IF cfg.device_ids # NoList THEN SelectSeq(all, Allowed)
            ELSE IF cfg.use_all_devices THEN all
            ELSE EnumerateHdmiOrDefault(all)
        Kept(d) == ~Match(d, cfg.exclude_ids[1])
    IN IF cfg.exclude_ids # NoList THEN SelectSeq(devices, Kept) ELSE devices

\* AudioEngine::should_device_start_paused
ShouldDeviceStartPaused(cfg, id) ==
    IF cfg.paused_device_ids # NoList THEN id \in cfg.paused_device_ids[1] ELSE FALSE

\* the configurations AudioEngine::new is given
Configs ==
    { [device_ids |-> NoList, exclude_ids |-> NoList,
       paused_device_ids |-> Some({"e2"}), use_all_devices |-> TRUE],
      [device_ids |-> Some({"e"}), exclude_ids |-> Some({"hdmi"}),
       paused_device_ids |-> NoList, use_all_devices |-> TRUE],
      [device_ids |-> NoList, exclude_ids |-> NoList,
       paused_device_ids |-> NoList, use_all_devices |-> FALSE] }

\* the configuration of the tray controller: every active endpoint
TrayConfig ==
    CHOOSE c \in Configs : c.use_all_devices /\ c.device_ids = NoList

\* ------------------------------------------------------------ engine sizes
\* capacity of the DeviceEvent channel (engine.rs:230, scaled)
DeviceEventCap == 1
\* capacity of the CaptureCommand channel (engine.rs:218, scaled)
CaptureCmdCap == 1
\* capacity of the volume tracker's DeviceEvent channel (engine.rs:235, scaled)
VolumeEventCap == 1
\* capacity of the caller's EngineEvent channel (controller.rs:53, scaled)
SinkCap == 1
\* AudioFormat.block_align of the capture format (scaled)
BlockAlign == 2
\* length of capture_thread's temp_buffer (engine.rs:552, scaled)
TempBufLen == 3
\* length of render_thread's render_buffer (engine.rs:750, scaled)
RenderBufLen == 4
\* most frames in one capture packet of the host
MaxFrames == 2
\* most frames a correction makes a renderer skip (clock.rs:11, scaled)
MaxSkip == 1

\* ---------------------------------------------------------- sync/clock.rs
DRIFT_THRESHOLD_SAMPLES == 240
MAX_CORRECTION_SAMPLES == 48
\* bits of a stream position (u64, scaled)
PositionBits == 13

Abs(x) == IF x < 0 THEN -x ELSE x
Signum(x) == IF x > 0 THEN 1 ELSE IF x < 0 THEN -1 ELSE 0
\* the integer division of the code: the quotient is rounded towards zero
TruncDiv(a, b) == IF a >= 0 THEN a \div b ELSE -((-a) \div b)
\* position.wrapping_sub(last_position) as i64
MovementI64(position, last_position) ==
    LET d == (position - last_position) % Pow2(PositionBits)
    IN IF d >= Pow2(PositionBits - 1) THEN d - Pow2(PositionBits) ELSE d

\* the SlaveState register_slave inserts
SlaveStateNew ==
    [last_position |-> 0, drift_samples |-> 0, pending_correction |-> 0]

\* ClockSync::new
ClockSyncNew ==
    [master_id |-> NoDevice, slaves |-> {},
     slave_state |-> [id \in DeviceIds |-> SlaveStateNew]]

\* the ClockSync the threads of the engine share
ClockSync ==
    [master_id |-> master_id, slaves |-> slaves, slave_state |-> slave_state]

SetMaster(cs, id) == [cs EXCEPT !.master_id = id]

\* a registration that does not look at the master id
RegisterAny(cs, id) ==
    [cs EXCEPT !.slaves = @ \cup {id}, !.slave_state[id] = SlaveStateNew]

RegisterSlave(cs, id) ==
    IF id = cs.master_id THEN cs
    ELSE [cs EXCEPT !.slaves = @ \cup {id},
                    !.slave_state[id] = SlaveStateNew]

IsMaster(cs, id) == cs.master_id # NoDevice /\ cs.master_id = id

\* the smoothed drift after a movement of drift_delta more than expected
SmoothedDrift(drift_samples, drift_delta) ==
    TruncDiv(drift_samples * 7 + drift_delta, 8)

\* a correction of the whole drift, without the limit per update
WholeDrift(drift_samples) ==
    IF Abs(drift_samples) > DRIFT_THRESHOLD_SAMPLES THEN drift_samples ELSE 0

\* the correction update_slave asks for at a drift
CorrectionFor(drift_samples) ==
    IF Abs(drift_samples) > DRIFT_THRESHOLD_SAMPLES
    THEN Signum(drift_samples) * Min(Abs(drift_samples), MAX_CORRECTION_SAMPLES)
    ELSE 0

\* elapsed_samples is (elapsed.as_secs_f64() * sample_rate) as i64 of the
\* time since the slave's last_sync
UpdateSlave(cs, id, position, elapsed_samples) ==
    IF id \notin cs.slaves THEN cs
    ELSE LET slave == cs.slave_state[id]
             actual_movement == MovementI64(position, slave.last_position)
             drift_delta == actual_movement - elapsed_samples
             drift == SmoothedDrift(slave.drift_samples, drift_delta)
         IN [cs EXCEPT !.slave_state[id] =
               [last_position |-> position,
                drift_samples |-> drift,
                pending_correction |-> CorrectionFor(drift)]]

\* get_correction_readonly: the pending correction stays pending
GetCorrectionReadonly(cs, id) ==
    [ret |-> IF id \in cs.slaves
             THEN cs.slave_state[id].pending_correction ELSE 0,
     cs |-> cs]

\* get_correction: the value returned and the ClockSync left behind
GetCorrection(cs, id) ==
    IF id \notin cs.slaves THEN [ret |-> 0, cs |-> cs]
    ELSE LET slave == cs.slave_state[id]
             correction == slave.pending_correction
         IN [ret |-> correction,
             cs |-> IF correction # 0
                    THEN [cs EXCEPT !.slave_state[id] =
                            [slave EXCEPT
                               !.drift_samples = @ - correction,
                               !.pending_correction = 0]]
                    ELSE cs]

NoBatch == [frames |-> 0, silent |-> TRUE, before |-> 0]
NoSubmit == [id |-> NoDevice, data |-> <<>>, result |-> "none", correction |-> 0,
             frames |-> 0]
\* the overrun a render loop logs when it finds its reader lagging
Overrun(e) == [id |-> e, data |-> <<>>, result |-> "Overrun", correction |-> 0,
               frames |-> 0]
NoResult == "none"
\* no packet of the host capture buffer is held
NoClaim == [held |-> 0, silent |-> TRUE, releases |-> 0]

\* AudioEngine::new, before any thread exists
EngineFields ==
    /\ config \in Configs
    /\ state = "Uninitialized"
    /\ stop_flag = FALSE
    /\ capture_handle = FALSE
    /\ volume_handle = FALSE
    /\ monitor_handle = FALSE
    /\ render_handles = <<>>
    /\ device_monitor = FALSE
    /\ renderer_controls = {}
    /\ paused = [e \in Endpoints |-> FALSE]
    /\ device_names = {}
    /\ current_default_id = NoDevice
    /\ event_tx = FALSE
    /\ ring_set = FALSE
    /\ master_id = ClockSyncNew.master_id
    /\ slaves = ClockSyncNew.slaves
    /\ slave_state = ClockSyncNew.slave_state
    /\ volume_level = 1
    /\ apiPc = "idle"
    /\ apiArg = NoDevice
    /\ targets = <<>>
    /\ lastResult = NoResult
    /\ capPc = "none"
    /\ capStarted = FALSE
    /\ volPc = "none"
    /\ monPc = "none"
    /\ monEvent = NoDevice
    /\ rendPc = [e \in Endpoints |-> "none"]
    /\ rstate = [e \in Endpoints |-> "Idle"]
    /\ controlsLock = "free"
    /\ device_events = <<>>
    /\ capture_cmds = 0
    /\ volume_events = 0
    /\ sink = 0
    /\ callbackArmed = FALSE
    /\ hostMuted = FALSE
    /\ lastSubmit = NoSubmit
    /\ lastBatch = NoBatch
    /\ capture_buffer = NoClaim

\* AudioEngine::new on a host where start() will build EngineRing
EngineNew ==
    /\ EngineFields
    /\ ring_new = EngineRing

\* --------------------------------------------------------------- RingSpec
\* the ring after some silent batches: the writer starts at 0 or just
\* below the point where usize wraps, over zeroed bytes
RingStartPositions == {0, UsizeMod - 3}

RingInit ==
    /\ buffer = EmptyRing
    /\ write_pos \in RingStartPositions
    /\ read_pos = [e \in Endpoints |-> 0]
    /\ wr = NoWrite
    /\ rd = NoRead
    /\ created = FALSE
    /\ written = <<>>
    /\ published = 0
    /\ subAt = 0
    /\ readLog = <<>>
    /\ lapped = FALSE
    /\ EngineNew
    /\ config = TrayConfig
    /\ audioLeft = 0

\* ReaderState::new
ReaderNew ==
    /\ ~created
    /\ created' = TRUE
    /\ read_pos' = [read_pos EXCEPT ![RingReader] = write_pos]
    /\ subAt' = published
    /\ UNCHANGED <<pipeVars, buffer, write_pos, wr, rd, written, published, readLog, lapped>>

\* RingBuffer::write is entered with n bytes: load write_pos (Relaxed)
WriteBegin(n) ==
    /\ ~wr.active
    /\ Len(written) + n <= MaxStream
    /\ LET data == [k \in 1..n |-> StreamByte(Len(written) + k)]
       IN /\ wr' = [data |-> data, i |-> 0, active |-> TRUE, ret |-> 0]
          /\ written' = written \o data
    /\ UNCHANGED <<pipeVars, ringVars, rd, created, published, subAt, readLog, lapped>>

\* a store loop that stops storing once the ring is full
WriteByteBounded ==
    /\ wr.active
    /\ wr.i < Len(wr.data)
    /\ buffer' = IF wr.i < Capacity
                 THEN [buffer EXCEPT ![Slot(write_pos, wr.i)] = wr.data[wr.i + 1]]
                 ELSE buffer
    /\ wr' = [wr EXCEPT !.i = wr.i + 1]
    /\ UNCHANGED <<pipeVars, write_pos, read_pos, rd, created, written, published,
                   subAt, readLog, lapped>>

\* one iteration of the store loop of write
WriteByte ==
    /\ wr.active
    /\ wr.i < Len(wr.data)
    /\ buffer' = [buffer EXCEPT ![Slot(write_pos, wr.i)] = wr.data[wr.i + 1]]
    /\ wr' = [wr EXCEPT !.i = wr.i + 1]
    /\ UNCHANGED <<pipeVars, write_pos, read_pos, rd, created, written, published,
                   subAt, readLog, lapped>>

\* the release store of the new write position
WritePublish ==
    /\ wr.active
    /\ wr.i = Len(wr.data)
    /\ write_pos' = WrappingAdd(write_pos, Len(wr.data))
    /\ published' = published + Len(wr.data)
    /\ lapped' = (lapped \/ (created /\ IsLagging(write_pos', read_pos[RingReader])))
    /\ wr' = [NoWrite EXCEPT !.ret = Len(wr.data)]
    /\ UNCHANGED <<pipeVars, buffer, read_pos, rd, created, written, subAt, readLog>>

\* RingBuffer::read is entered with a destination of len bytes: acquire
\* load of write_pos and the computation of to_read
ReadBegin(len) ==
    /\ created
    /\ ~rd.active
    /\ rd' = [len |-> len,
              to_read |-> ToRead(len, write_pos, read_pos[RingReader]),
              i |-> 0, buf |-> <<>>, active |-> TRUE, ret |-> 0,
              checked |-> rd.checked]
    /\ UNCHANGED <<pipeVars, ringVars, wr, created, written, published, subAt, readLog, lapped>>

\* one iteration of the copy loop of read
ReadByte ==
    /\ rd.active
    /\ rd.i < rd.to_read
    /\ rd' = [rd EXCEPT !.i = rd.i + 1,
                        !.buf = Append(rd.buf, buffer[Slot(read_pos[RingReader], rd.i)])]
    /\ UNCHANGED <<pipeVars, ringVars, wr, created, written, published, subAt, readLog, lapped>>

\* read returns: the read position advances by to_read
ReadEnd ==
    /\ rd.active
    /\ rd.i = rd.to_read
    /\ read_pos' = [read_pos EXCEPT ![RingReader] = WrappingAdd(read_pos[RingReader], rd.to_read)]
    /\ readLog' = readLog \o rd.buf
    /\ rd' = [NoRead EXCEPT !.ret = rd.to_read]
    /\ UNCHANGED <<pipeVars, buffer, write_pos, wr, created, written, published, subAt, lapped>>

\* ReaderState::catch_up
CatchUp ==
    /\ created
    /\ ~rd.active
    /\ read_pos' = [read_pos EXCEPT ![RingReader] = write_pos]
    /\ subAt' = published
    /\ readLog' = <<>>
    /\ lapped' = FALSE
    /\ UNCHANGED <<pipeVars, buffer, write_pos, wr, rd, created, written, published>>

\* render_thread, lines 767-771: the lag check before a read, with the
\* catch_up it leads to when the reader is found lagging
LagCheck ==
    /\ created
    /\ ~rd.active
    /\ ~rd.checked
    /\ rd' = [rd EXCEPT !.checked = TRUE]
    /\ IF IsLagging(write_pos, read_pos[RingReader])
       THEN /\ read_pos' = [read_pos EXCEPT ![RingReader] = write_pos]
            /\ subAt' = published
            /\ readLog' = <<>>
            /\ lapped' = FALSE
       ELSE UNCHANGED <<read_pos, subAt, readLog, lapped>>
    /\ UNCHANGED <<pipeVars, buffer, write_pos, wr, created, written, published>>

RingNext ==
    \/ ReaderNew
    \/ LagCheck
    \/ \E n \in 1..MaxLen : WriteBegin(n)
    \/ WriteByte
    \/ WritePublish
    \/ \E len \in 1..MaxLen : ReadBegin(len)
    \/ ReadByte
    \/ ReadEnd
    \/ CatchUp

RingSpec == RingInit /\ [][RingNext]_vars

IsPrefix(s, t) == Len(s) <= Len(t) /\ \A k \in 1..Len(s) : s[k] = t[k]

\* the bytes written after the reader was created (or last caught up)
WrittenSince == SubSeq(written, subAt + 1, Len(written))

\* C1: with the writer and the reader running concurrently, while the
\* reader has not been lapped (writer - reader > capacity never observed
\* since it was created or caught up) the bytes it has returned are a
\* prefix of the bytes written since then.
RingPrefixOfWritten ==
    (created /\ ~lapped) => IsPrefix(readLog, WrittenSince)

\* the distance in the stream between the writer position and the
\* reader position, counted in bytes published and bytes returned
StreamDistance == published - (subAt + Len(readLog))

\* C22: read with a destination of L bytes and reader position r takes
\* n = min(L, writer - r, capacity), copies the ring bytes at the indices
\* (r + i) mod capacity for i in 0..n-1 in this order, returns n and
\* advances r by exactly n; it leaves the writer position and the ring
\* bytes unchanged, and n = 0 with r unchanged when writer = r.
ReadContract ==
    [][/\ (~rd.active /\ rd'.active)
            => /\ rd'.to_read = Min(Min(rd'.len, StreamDistance), Capacity)
               /\ (write_pos = read_pos[RingReader] => rd'.to_read = 0)
               /\ rd'.buf = <<>>
       /\ (rd.active /\ rd'.active /\ rd' # rd)
            => /\ rd'.buf = Append(rd.buf,
                      buffer[(read_pos[RingReader] + Len(rd.buf)) % Capacity])
               /\ Len(rd'.buf) <= rd.to_read
               /\ rd'.to_read = rd.to_read
       /\ (rd.active /\ ~rd'.active)
            => /\ Len(rd.buf) = rd.to_read
               /\ rd'.ret = rd.to_read
               /\ read_pos'[RingReader] =
                      (read_pos[RingReader] + rd.to_read) % UsizeMod
               /\ readLog' = readLog \o rd.buf
       /\ (rd' # rd) => UNCHANGED <<buffer, write_pos>>
       /\ (rd' # rd /\ rd'.active) => UNCHANGED read_pos]_vars

\* a read into a destination longer than the ring, by a reader more than
\* a ring behind the writer, has copied a whole ring of bytes
ReadCappedAtCapacity ==
    /\ rd.active
    /\ rd.len > Capacity
    /\ Len(rd.buf) = Capacity
    /\ StreamDistance > Capacity

\* the bytes of data that a ring of Capacity bytes still holds after
\* data was stored: the last Capacity of them
KeptBytes(data) ==
    {k \in 1..Len(data) : k > Len(data) - Capacity}

\* C23: write(bytes) goes through for any length and any reader position,
\* returns |bytes| and advances the writer position by exactly |bytes|;
\* when it returns, each of the last capacity bytes of the input is in the
\* ring at the index given by its stream position masked by capacity - 1
\* (for |bytes| >= capacity these are the whole ring).
WriteContract ==
    /\ [](wr.active => ENABLED (WriteByte \/ WritePublish))
    /\ [][(wr.active /\ ~wr'.active)
            => /\ wr'.ret = Len(wr.data)
               /\ write_pos' = (write_pos + Len(wr.data)) % UsizeMod
               /\ published' = published + Len(wr.data)
               /\ \A k \in KeptBytes(wr.data) :
                     buffer'[(write_pos + k - 1) % Capacity] = wr.data[k]
               /\ (Len(wr.data) >= Capacity
                     => \A slot \in DOMAIN buffer' :
                          \E k \in KeptBytes(wr.data) :
                            /\ slot = (write_pos + k - 1) % Capacity
                            /\ buffer'[slot] = wr.data[k])]_vars

\* a write of more bytes than the ring holds has returned
WroteMoreThanCapacity ==
    /\ ~wr.active
    /\ wr.ret > Capacity
    /\ created
    /\ StreamDistance > Capacity

\* C24: with w - r the distance in the stream between the writer and the
\* reader, is_lagging(r) is true exactly when w - r > capacity and
\* available(r) = min(w - r, capacity); catch_up sets r to w, after which
\* is_lagging(r) is false and available(r) = 0 until the next write is
\* published.
LagAndAvailable ==
    /\ [](created
           => /\ IsLagging(write_pos, read_pos[RingReader])
                    <=> StreamDistance > Capacity
              /\ Available(write_pos, read_pos[RingReader])
                    = Min(StreamDistance, Capacity))
    /\ [][(created /\ ~rd.active /\ read_pos' # read_pos)
            => /\ read_pos'[RingReader] = write_pos
               /\ write_pos' = write_pos
               /\ ~IsLagging(write_pos', read_pos'[RingReader])
               /\ Available(write_pos', read_pos'[RingReader]) = 0]_vars
    /\ [][(created /\ Available(write_pos, read_pos[RingReader]) = 0
              /\ published' = published)
            => /\ ~IsLagging(write_pos', read_pos'[RingReader])
               /\ Available(write_pos', read_pos'[RingReader]) = 0]_vars

\* the reader is lapped while the writer position has wrapped past the
\* end of usize and the reader position has not
LaggingAcrossWrap ==
    /\ created
    /\ IsLagging(write_pos, read_pos[RingReader])
    /\ write_pos < read_pos[RingReader]
    /\ ENABLED CatchUp

\* the bytes the writer has stored in the ring, published or not
StoredCount == published + (IF wr.active THEN wr.i ELSE 0)

\* C30: under every interleaving of the writer with a renderer's lag
\* check and read, when the renderer copies a byte out of the ring the
\* reader is not lapped, counting the bytes the writer has stored but not
\* yet published: the slot of the byte has not been overwritten since the
\* lag check.
CopiesOnlyLiveSlots ==
    (rd.active /\ rd.checked /\ rd.i < rd.to_read)
        => StoredCount - (subAt + Len(readLog) + rd.i) <= Capacity

\* C35: the reader position, which starts at the writer position
\* ReaderState::new loads and is changed only by read and catch_up, is at
\* most the writer position in every reachable state, both counted in
\* bytes of the stream (the usize values are these counts modulo 2^w):
\* the difference writer - reader the code computes is the number of
\* published bytes the reader has not passed, never a wrapped negative,
\* and available never reports more than that.
ReaderNeverAhead ==
    created =>
        /\ StreamDistance >= 0
        /\ WrappingSub(write_pos, read_pos[RingReader]) = StreamDistance
        /\ Available(write_pos, read_pos[RingReader]) <= StreamDistance

\* the reader has read up to the writer, with positions that have wrapped
ReaderReachedWriter ==
    /\ created /\ ~rd.active /\ ~wr.active
    /\ readLog # <<>>
    /\ StreamDistance = 0
    /\ write_pos < published

\* ------------------------------------------------------- engine: start

\* a thread that was never spawned or has returned is at "none"
CaptureAlive == capPc # "none"
VolumeAlive == volPc # "none"
MonitorAlive == monPc # "none"
RendererAlive(e) == rendPc[e] # "none"
NoLiveWorker ==
    ~CaptureAlive /\ ~VolumeAlive /\ ~MonitorAlive
    /\ \A e \in Endpoints : ~RendererAlive(e)

\* the engine holds no thread handle: it is fresh, or stopped, or its
\* start() failed before spawning anything. Every caller drops an engine
\* whose start() failed (main.rs:114-148, tray/controller.rs:175-192), so
\* start() is not called again on an engine that kept handles
NoHandle ==
    /\ ~capture_handle
    /\ ~volume_handle
    /\ ~monitor_handle
    /\ render_handles = <<>>

\* AudioEngine::set_event_channel, called as tray/controller.rs does:
\* on a fresh engine, before start
SetEventChannel ==
    /\ apiPc = "idle"
    /\ state = "Uninitialized"
    /\ NoLiveWorker
    /\ ~event_tx
    /\ event_tx' = TRUE
    /\ UNCHANGED <<ringVars, ringStepVars, apiVars, workerVars, chanVars, hostVars,
                   ring_new, config, state, stop_flag, capture_handle, volume_handle,
                   monitor_handle, render_handles, device_monitor,
                   renderer_controls, paused, device_names, current_default_id,
                   ring_set, master_id, slaves, slave_state, volume_level>>

\* the caller enters start(); the callers of the repository drop an engine
\* whose start failed, so start is not entered over workers left alive
StartCall ==
    /\ apiPc = "idle"
    /\ (state = "Running" \/ NoHandle)
    /\ apiPc' = "start"
    /\ UNCHANGED <<ringVars, ringStepVars, engineVars, workerVars, chanVars,
                   hostVars, apiArg, targets, lastResult>>

\* a start() that does not look at the state
StartUnchecked(st) == FALSE
\* start(), lines 167-172: the call is refused on a Running engine
Refused(st) == st = "Running"

\* a start() that goes on with an empty list of targets
EmptyAccepted(devices) == FALSE
\* start(), lines 196-198: an empty list of targets ends the call
NoTargets(devices) == Len(devices) = 0

\* start(): lines 166-198, up to the resolution of the target endpoints
StartBody ==
    /\ apiPc = "start"
    /\ IF Refused(state)
       THEN /\ lastResult' = "AlreadyRunning"
            /\ apiPc' = "idle"
            /\ UNCHANGED <<ringVars, engineVars, targets, lastBatch>>
       ELSE /\ stop_flag' = FALSE
            /\ \E host \in {"capture_fails", "enumeration_fails", "ok"} :
                 CASE host = "capture_fails" ->
                        /\ lastResult' = "CaptureError"
                        /\ apiPc' = "idle"
                        /\ UNCHANGED <<ringVars, ring_set, targets, lastBatch>>
                   [] host = "enumeration_fails" ->
                        /\ ring_set' = TRUE
                        /\ buffer' = EmptyRing
                        /\ write_pos' = 0
                        /\ lastBatch' = NoBatch
                        /\ lastResult' = "EnumerationError"
                        /\ apiPc' = "idle"
                        /\ UNCHANGED <<read_pos, targets>>
                   [] OTHER ->
                        /\ ring_set' = TRUE
                        /\ buffer' = EmptyRing
                        /\ write_pos' = 0
                        /\ lastBatch' = NoBatch
                        /\ UNCHANGED read_pos
                        /\ \E all \in HostEnumerations :
                             IF NoTargets(GetTargetDevices(config, all))
                             THEN /\ lastResult' = "NoHdmiDevices"
                                  /\ apiPc' = "idle"
                                  /\ UNCHANGED targets
                             ELSE /\ targets' = GetTargetDevices(config, all)
                                  /\ apiPc' = "spawn"
                                  /\ UNCHANGED lastResult
            /\ UNCHANGED <<ring_new, config, state, capture_handle, volume_handle,
                           monitor_handle, render_handles, device_monitor,
                           renderer_controls, paused, device_names,
                           current_default_id, event_tx, master_id, slaves, slave_state,
                           volume_level>>
    /\ UNCHANGED <<ringStepVars, apiArg, workerVars, chanVars, callbackArmed,
                   hostMuted, audioLeft, lastSubmit, capture_buffer>>

\* start(): lines 210-262: the clock sync, the channels, the capture
\* thread, the DeviceMonitor, the volume thread, the default id
StartSpawnWorkers ==
    /\ apiPc = "spawn"
    /\ master_id' = ClockSyncNew.master_id
    /\ slaves' = ClockSyncNew.slaves
    /\ slave_state' = ClockSyncNew.slave_state
    /\ capture_cmds' = 0
    /\ capPc' = "open"
    /\ capStarted' = FALSE
    /\ capture_handle' = TRUE
    /\ \E monitor_ok \in BOOLEAN :
         IF ~monitor_ok
         THEN /\ lastResult' = "MonitorError"
              /\ apiPc' = "idle"
              /\ targets' = <<>>
              /\ UNCHANGED <<device_monitor, callbackArmed, device_events,
                             volume_events, volPc, volume_handle,
                             renderer_controls, device_names,
                             current_default_id>>
         ELSE /\ device_monitor' = TRUE
              /\ callbackArmed' = TRUE
              /\ device_events' = <<>>
              /\ volume_events' = 0
              /\ volPc' = "init"
              /\ volume_handle' = TRUE
              /\ renderer_controls' = {}
              /\ device_names' = {}
              /\ current_default_id' \in DeviceIds \cup {NoDevice}
              /\ apiPc' = "renderers"
              /\ UNCHANGED <<lastResult, targets>>
    /\ UNCHANGED <<ringVars, ringStepVars, ring_new, config, state, stop_flag,
                   monitor_handle, render_handles, paused, event_tx, ring_set,
                   volume_level, apiArg, monPc, monEvent, rendPc, rstate,
                   controlsLock, sink, hostMuted, audioLeft, lastBatch,
                   capture_buffer,
                   lastSubmit>>

\* start(): one pass of the loop of lines 266-333 over target_devices
StartRenderer ==
    /\ apiPc = "renderers"
    /\ targets # <<>>
    /\ LET id == Head(targets).id IN
       \E open_ok \in BOOLEAN :
         IF ~open_ok
         THEN /\ lastResult' = "DeviceError"
              /\ apiPc' = "idle"
              /\ targets' = <<>>
              /\ UNCHANGED <<master_id, slaves, slave_state, paused, renderer_controls,
                             device_names, rendPc, rstate, render_handles>>
         ELSE /\ LET cs == IF master_id = NoDevice
                            THEN SetMaster(ClockSync, id)
                            ELSE RegisterSlave(ClockSync, id)
                 IN /\ master_id' = cs.master_id
                    /\ slaves' = cs.slaves
                    /\ slave_state' = cs.slave_state
              /\ paused' = [paused EXCEPT ![id] =
                              (current_default_id = id)
                              \/ ShouldDeviceStartPaused(config, id)]
              /\ renderer_controls' = renderer_controls \cup {id}
              /\ device_names' = device_names \cup {id}
              /\ rendPc' = [rendPc EXCEPT ![id] = "start"]
              /\ rstate' = [rstate EXCEPT ![id] = "Idle"]
              /\ render_handles' = Append(render_handles, id)
              /\ targets' = Tail(targets)
              /\ UNCHANGED <<lastResult, apiPc>>
    /\ UNCHANGED <<ringVars, ringStepVars, ring_new, config, state, stop_flag,
                   capture_handle, volume_handle, monitor_handle,
                   device_monitor, current_default_id, event_tx, ring_set,
                   volume_level, apiArg, capPc, capStarted, volPc, monPc,
                   monEvent, controlsLock, chanVars, hostVars>>

\* start(): lines 335-356: the monitor thread, state := Running
StartFinish ==
    /\ apiPc = "renderers"
    /\ targets = <<>>
    /\ monPc' = "recv"
    /\ monEvent' = NoDevice
    /\ monitor_handle' = TRUE
    /\ state' = "Running"
    /\ lastResult' = "Ok"
    /\ apiPc' = "idle"
    /\ UNCHANGED <<ringVars, ringStepVars, ring_new, config, stop_flag, capture_handle,
                   volume_handle, render_handles, device_monitor,
                   renderer_controls, paused, device_names, current_default_id,
                   event_tx, ring_set, master_id, slaves, slave_state, volume_level, apiArg,
                   targets, capPc, capStarted, volPc, rendPc, rstate,
                   controlsLock, chanVars, hostVars>>

\* -------------------------------------------------------- engine: stop
StopCall ==
    /\ apiPc = "idle"
    /\ apiPc' = "stop"
    /\ UNCHANGED <<ringVars, ringStepVars, engineVars, workerVars, chanVars,
                   hostVars, apiArg, targets, lastResult>>

\* a stop() that shuts down whatever the state is
StopAlways(st) == TRUE
\* stop(), lines 362-365: only a Running engine is shut down
StopApplies(st) == st = "Running"

\* stop(): lines 360-381: the state check, the stop flag, the drop of the
\* DeviceMonitor.  DeviceMonitor has no Drop of its own: releasing the
\* enumerator and the callback either disarms the callback or leaves it
\* registered with the host.
StopBody ==
    /\ apiPc = "stop"
    /\ IF ~StopApplies(state)
       THEN /\ lastResult' = "Ok"
            /\ apiPc' = "idle"
            /\ UNCHANGED <<state, stop_flag, device_monitor, callbackArmed>>
       ELSE /\ state' = "ShuttingDown"
            /\ stop_flag' = TRUE
            /\ device_monitor' = FALSE
            /\ callbackArmed' \in {FALSE, callbackArmed}
            /\ apiPc' = "joinCapture"
            /\ UNCHANGED lastResult
    /\ UNCHANGED <<ringVars, ringStepVars, ring_new, config, capture_handle,
                   volume_handle, monitor_handle, render_handles,
                   renderer_controls, paused, device_names, current_default_id,
                   event_tx, ring_set, master_id, slaves, slave_state, volume_level, apiArg,
                   targets, workerVars, chanVars, hostMuted, audioLeft,
                   lastBatch, lastSubmit, capture_buffer>>

\* stop(): lines 383-386: join of the capture thread
StopJoinCapture ==
    /\ apiPc = "joinCapture"
    /\ capture_handle => capPc = "none"
    /\ capture_handle' = FALSE
    /\ apiPc' = "joinVolume"
    /\ UNCHANGED <<ringVars, ringStepVars, ring_new, config, state, stop_flag,
                   volume_handle, monitor_handle, render_handles,
                   device_monitor, renderer_controls, paused, device_names,
                   current_default_id, event_tx, ring_set, master_id, slaves, slave_state,
                   volume_level, apiArg, targets, lastResult, workerVars,
                   chanVars, hostVars>>

\* stop(): lines 388-391: join of the volume thread
StopJoinVolume ==
    /\ apiPc = "joinVolume"
    /\ volume_handle => volPc = "none"
    /\ volume_handle' = FALSE
    /\ apiPc' = "joinMonitor"
    /\ UNCHANGED <<ringVars, ringStepVars, ring_new, config, state, stop_flag,
                   capture_handle, monitor_handle, render_handles,
                   device_monitor, renderer_controls, paused, device_names,
                   current_default_id, event_tx, ring_set, master_id, slaves, slave_state,
                   volume_level, apiArg, targets, lastResult, workerVars,
                   chanVars, hostVars>>

\* a stop() that drops the monitor thread's handle without joining it
StopDetachMonitor ==
    /\ apiPc = "joinMonitor"
    /\ monitor_handle' = FALSE
    /\ apiPc' = "joinRenderers"
    /\ UNCHANGED <<ringVars, ringStepVars, ring_new, config, state, stop_flag,
                   capture_handle, volume_handle, render_handles,
                   device_monitor, renderer_controls, paused, device_names,
                   current_default_id, event_tx, ring_set, master_id, slaves, slave_state,
                   volume_level, apiArg, targets, lastResult, workerVars,
                   chanVars, hostVars>>

\* stop(): lines 393-396: join of the monitor thread
StopJoinMonitor ==
    /\ apiPc = "joinMonitor"
    /\ monitor_handle => monPc = "none"
    /\ monitor_handle' = FALSE
    /\ apiPc' = "joinRenderers"
    /\ UNCHANGED <<ringVars, ringStepVars, ring_new, config, state, stop_flag,
                   capture_handle, volume_handle, render_handles,
                   device_monitor, renderer_controls, paused, device_names,
                   current_default_id, event_tx, ring_set, master_id, slaves, slave_state,
                   volume_level, apiArg, targets, lastResult, workerVars,
                   chanVars, hostVars>>

\* stop(): lines 398-401: join of the next render thread
StopJoinRenderer ==
    /\ apiPc = "joinRenderers"
    /\ render_handles # <<>>
    /\ rendPc[Head(render_handles)] = "none"
    /\ render_handles' = Tail(render_handles)
    /\ UNCHANGED <<ringVars, ringStepVars, ring_new, config, state, stop_flag,
                   capture_handle, volume_handle, monitor_handle,
                   device_monitor, renderer_controls, paused, device_names,
                   current_default_id, event_tx, ring_set, master_id, slaves, slave_state,
                   volume_level, apiVars, workerVars, chanVars, hostVars>>

\* stop(): lines 403-421: clear the shared state, state := Stopped
StopFinish ==
    /\ apiPc = "joinRenderers"
    /\ render_handles = <<>>
    /\ controlsLock = "free"
    /\ renderer_controls' = {}
    /\ paused' = [e \in Endpoints |-> FALSE]
    /\ device_names' = {}
    /\ ring_set' = FALSE
    /\ current_default_id' = NoDevice
    /\ state' = "Stopped"
    /\ lastResult' = "Ok"
    /\ apiPc' = "idle"
    /\ UNCHANGED <<ringVars, ringStepVars, ring_new, config, stop_flag, capture_handle,
                   volume_handle, monitor_handle, render_handles,
                   device_monitor, event_tx, master_id, slaves, slave_state,
                   volume_level, apiArg, targets, workerVars, chanVars,
                   hostVars>>

\* ------------------------------------------- engine: pause, resume, status
PauseCall(id) ==
    /\ apiPc = "idle"
    /\ apiPc' = "pause"
    /\ apiArg' = id
    /\ UNCHANGED <<ringVars, ringStepVars, engineVars, workerVars, chanVars,
                   hostVars, targets, lastResult>>

ResumeCall(id) ==
    /\ apiPc = "idle"
    /\ apiPc' = "resume"
    /\ apiArg' = id
    /\ UNCHANGED <<ringVars, ringStepVars, engineVars, workerVars, chanVars,
                   hostVars, targets, lastResult>>

\* a store into the flag of any id, adopted or not
SetPausedUnchecked(op, value) ==
    /\ apiPc = op
    /\ controlsLock = "free"
    /\ paused' = [paused EXCEPT ![apiArg] = value]
    /\ lastResult' = "Ok"
    /\ apiPc' = "idle"
    /\ apiArg' = NoDevice
    /\ UNCHANGED <<ringVars, ringStepVars, ring_new, config, state, stop_flag,
                   capture_handle, volume_handle, monitor_handle,
                   render_handles, device_monitor, renderer_controls,
                   device_names, current_default_id, event_tx, ring_set,
                   master_id, slaves, slave_state, volume_level, targets,
                   workerVars, chanVars, hostVars>>

\* pause_renderer / resume_renderer once the controls mutex is acquired
SetPaused(op, value) ==
    /\ apiPc = op
    /\ controlsLock = "free"
    /\ IF apiArg \in renderer_controls
       THEN /\ paused' = [paused EXCEPT ![apiArg] = value]
            /\ lastResult' = "Ok"
       ELSE /\ lastResult' = "DeviceNotFound"
            /\ UNCHANGED paused
    /\ apiPc' = "idle"
    /\ apiArg' = NoDevice
    /\ UNCHANGED <<ringVars, ringStepVars, ring_new, config, state, stop_flag,
                   capture_handle, volume_handle, monitor_handle,
                   render_handles, device_monitor, renderer_controls,
                   device_names, current_default_id, event_tx, ring_set,
                   master_id, slaves, slave_state, volume_level, targets, workerVars,
                   chanVars, hostVars>>

PauseRenderer == SetPaused("pause", TRUE)
ResumeRenderer == SetPaused("resume", FALSE)

\* tray/controller.rs run_loop, lines 117-124: the idle caller takes one
\* EngineEvent off its channel and goes on to refresh_devices
ControllerDrain ==
    /\ apiPc = "idle"
    /\ sink > 0
    /\ sink' = sink - 1
    /\ apiPc' = "statuses"
    /\ UNCHANGED <<ringVars, ringStepVars, engineVars, workerVars, hostVars,
                   apiArg, targets, lastResult, device_events, capture_cmds,
                   volume_events>>

\* a caller that holds the engine enters get_device_statuses
StatusesCall ==
    /\ apiPc = "idle"
    /\ apiPc' = "statuses"
    /\ UNCHANGED <<ringVars, ringStepVars, engineVars, workerVars, chanVars,
                   hostVars, apiArg, targets, lastResult>>

\* the rows get_device_statuses returns
DeviceStatuses ==
    { [id |-> id, is_enabled |-> TRUE, is_paused |-> paused[id],
       is_system_default |-> (current_default_id = id)]
      : id \in renderer_controls }

\* get_device_statuses once the controls mutex is acquired
GetDeviceStatuses ==
    /\ apiPc = "statuses"
    /\ controlsLock = "free"
    /\ lastResult' = "Ok"
    /\ apiPc' = "idle"
    /\ UNCHANGED <<ringVars, ringStepVars, engineVars, workerVars, chanVars,
                   hostVars, apiArg, targets>>

\* --------------------------------------------------------- capture_thread
\* lines 539-550: open and start the loopback stream; either failure
\* returns from the thread (its command receiver is dropped)
CaptureOpen ==
    /\ capPc = "open"
    /\ \E host \in {"ok", "open_or_start_fails"} :
         IF host = "ok"
         THEN capPc' = "loop" /\ capStarted' = TRUE /\ UNCHANGED capture_cmds
         ELSE capPc' = "none" /\ capStarted' = FALSE /\ capture_cmds' = 0
    /\ UNCHANGED <<ringVars, ringStepVars, engineVars, apiVars, volPc, monPc,
                   monEvent, rendPc, rstate, controlsLock, device_events,
                   volume_events, sink, hostVars>>

\* the bytes of a non-silent packet of n bytes: none of them zero
PacketBytes(n) == [k \in 1..n |-> k]
ZeroBytes(n) == [k \in 1..n |-> 0]

\* CapturedFrames::byte_count
ByteCount(frames) == frames * BlockAlign

\* CapturedFrames::copy_to into a destination of destLen bytes
CopyTo(frames, silent, destLen) ==
    LET count == Min(destLen, ByteCount(frames))
    IN IF silent THEN ZeroBytes(count)
       ELSE SubSeq(PacketBytes(ByteCount(frames)), 1, count)

\* what read_frames can return on a stream that is started or not: a wait
\* that times out, an empty claim or a GetBuffer error (none of which
\* touches the ring), or a packet
ReadOutcomes(started) ==
    {[frames |-> 0, silent |-> TRUE]}
    \cup (IF started /\ audioLeft > 0
          THEN [frames : 1..MaxFrames, silent : BOOLEAN]
          ELSE {})

\* a capture that waits until every reader has room for the batch
CaptureReadThrottled(started) ==
    \E batch \in ReadOutcomes(started) :
      LET data == CopyTo(batch.frames, batch.silent, TempBufLen)
          after == RingWrite(buffer, write_pos, data)
      IN /\ \A e \in Endpoints :
              WrappingSub(write_pos, read_pos[e]) + Len(data) <= Capacity
         /\ buffer' = after[1]
         /\ write_pos' = after[2]
         /\ IF batch.frames > 0
            THEN /\ lastBatch' = [frames |-> batch.frames,
                                  silent |-> batch.silent,
                                  before |-> write_pos]
                 /\ audioLeft' = audioLeft - 1
            ELSE UNCHANGED <<lastBatch, audioLeft>>

\* lines 587-599: read_frames, copy_to the temp buffer, write to the ring
CaptureRead(started) ==
    \E batch \in ReadOutcomes(started) :
      LET data == CopyTo(batch.frames, batch.silent, TempBufLen)
          after == RingWrite(buffer, write_pos, data)
      IN /\ buffer' = after[1]
         /\ write_pos' = after[2]
         /\ IF batch.frames > 0
            THEN /\ lastBatch' = [frames |-> batch.frames,
                                  silent |-> batch.silent,
                                  before |-> write_pos]
                 /\ audioLeft' = audioLeft - 1
            ELSE UNCHANGED <<lastBatch, audioLeft>>

\* lines 554-600: one iteration of the capture loop: the loop test, the
\* command poll, the read. A Reinitialize stops the stream and opens the
\* default endpoint again; when the open or the start fails the iteration
\* ends there (continue) and the thread keeps a stream that is not started.
CaptureIterate ==
    /\ capPc = "loop"
    /\ IF stop_flag
       THEN /\ capPc' = "none" /\ capStarted' = FALSE /\ capture_cmds' = 0
            /\ UNCHANGED <<buffer, write_pos, lastBatch, audioLeft>>
       ELSE /\ UNCHANGED capPc
            /\ IF capture_cmds > 0
               THEN /\ capture_cmds' = capture_cmds - 1
                    /\ \E reopen_ok \in BOOLEAN :
                         /\ capStarted' = reopen_ok
                         /\ IF reopen_ok
                            THEN CaptureRead(TRUE)
                            ELSE UNCHANGED <<buffer, write_pos, lastBatch,
                                             audioLeft>>
               ELSE /\ UNCHANGED <<capStarted, capture_cmds>>
                    /\ CaptureRead(capStarted)
    /\ UNCHANGED <<read_pos, ringStepVars, engineVars, apiVars, volPc, monPc,
                   monEvent, rendPc, rstate, controlsLock, device_events,
                   volume_events, sink, callbackArmed, hostMuted,
                   lastSubmit, capture_buffer>>

\* ------------------------------------------------- volume_tracking_thread
\* lines 615-621: a tracker that cannot be created ends the thread
VolumeInit ==
    /\ volPc = "init"
    /\ \E tracker_ok \in BOOLEAN :
         IF tracker_ok
         THEN volPc' = "loop" /\ UNCHANGED volume_events
         ELSE volPc' = "none" /\ volume_events' = 0
    /\ UNCHANGED <<ringVars, ringStepVars, engineVars, apiVars, capPc,
                   capStarted, monPc, monEvent, rendPc, rstate, controlsLock,
                   device_events, capture_cmds, sink, hostVars>>

\* VolumeTracker::get_effective_volume of the host's default endpoint
EffectiveVolume == IF hostMuted THEN 0 ELSE 1

\* lines 623-645: one iteration: poll the event channel, publish the volume
VolumeIterate ==
    /\ volPc = "loop"
    /\ IF stop_flag
       THEN volPc' = "none" /\ volume_events' = 0 /\ UNCHANGED volume_level
       ELSE /\ volume_events' = IF volume_events > 0 THEN volume_events - 1 ELSE 0
            /\ volume_level' = EffectiveVolume
            /\ UNCHANGED volPc
    /\ UNCHANGED <<ringVars, ringStepVars, ring_new, config, state, stop_flag,
                   capture_handle, volume_handle, monitor_handle,
                   render_handles, device_monitor, renderer_controls, paused,
                   device_names, current_default_id, event_tx, ring_set,
                   master_id, slaves, slave_state, apiVars, capPc, capStarted, monPc,
                   monEvent, rendPc, rstate, controlsLock, device_events,
                   capture_cmds, sink, hostVars>>

\* ------------------------------------------------------------ render_thread
\* lines 743-754: start the endpoint, create the reader, pre-roll
RenderStart(e) ==
    /\ rendPc[e] = "start"
    /\ \E start_ok \in BOOLEAN :
         IF start_ok
         THEN /\ rstate' = [rstate EXCEPT ![e] = "Running"]
              /\ read_pos' = [read_pos EXCEPT ![e] = write_pos]
              /\ rendPc' = [rendPc EXCEPT ![e] = "loop"]
         ELSE /\ rendPc' = [rendPc EXCEPT ![e] = "none"]
              /\ UNCHANGED <<rstate, read_pos>>
    /\ UNCHANGED <<buffer, write_pos, ringStepVars, engineVars, apiVars, capPc,
                   capStarted, volPc, monPc, monEvent, controlsLock, chanVars,
                   hostVars>>

\* HdmiRenderer::stop, lines 205-211: the call reaches the host's
\* IAudioClient::Stop only in state Running, in any other state it
\* returns Ok at once
StopsHostStream(st) == st = "Running"

\* HdmiRenderer::stop
RendererStopped(st) == IF StopsHostStream(st) THEN "Idle" ELSE st

\* HdmiRenderer::write_silence, lines 274-277: the call reaches the host
\* only in state Running, in any other state it returns Ok at once
WriteSilence(st) == st = "Running"

\* a skip that forgets the size of a frame
SkipFrames(correction, read) ==
    IF correction > 0 THEN Min(correction, read) ELSE 0

\* lines 786-797: a positive correction skips that many frames at the
\* head of what was read
SkipBytes(correction, read) ==
    IF correction > 0 THEN Min(correction * BlockAlign, read) ELSE 0

\* samples that pass whatever the volume is
Unscaled(data, volume) == data

\* apply_volume_f32: every sample times the volume, nothing to do at 1
\* (one element of the model's ring stands for one f32 sample)
ApplyVolumeF32(data, volume) ==
    IF volume = 1 THEN data ELSE [k \in DOMAIN data |-> data[k] * volume]

\* a catch_up that moves every reader
CaughtUpAll(pos, e, wpos) == [o \in Endpoints |-> wpos]

\* ReaderState::catch_up of renderer e: its own position goes to the
\* writer position
CaughtUp(pos, e, wpos) == [pos EXCEPT ![e] = wpos]

\* AudioFormat::bytes_to_frames
BytesToFrames(n) == n \div BlockAlign

\* a host that always takes every frame offered
WriteFramesAll(data) ==
    {[ok |-> FALSE, frames |-> 0], [ok |-> TRUE, frames |-> BytesToFrames(Len(data))]}

\* HdmiRenderer::write_frames in state Running, lines 229-270: Err when a
\* host call fails; Ok(0) when the wait times out or the endpoint buffer
\* is full; otherwise Ok(min(data_frames, available_frames)) with the
\* room the host has
WriteFrames(data) ==
    {[ok |-> FALSE, frames |-> 0]}
        \cup {[ok |-> TRUE, frames |-> n] : n \in 0..BytesToFrames(Len(data))}

\* ClockSync::get_correction as the render loop sees it: 0 for the master,
\* for a slave what the host's timing made of its drift
Corrections(e) == IF e \in slaves THEN (-MaxSkip)..MaxSkip ELSE {0}

\* lines 756-825: one iteration of the render loop
RenderIterate(e) ==
    /\ rendPc[e] = "loop"
    /\ IF stop_flag
       THEN /\ rendPc' = [rendPc EXCEPT ![e] = "none"]
            /\ rstate' = [rstate EXCEPT ![e] = RendererStopped(rstate[e])]
            /\ UNCHANGED <<read_pos, lastSubmit>>
       ELSE IF paused[e]
       THEN /\ read_pos' = CaughtUp(read_pos, e, write_pos)
            /\ UNCHANGED <<rendPc, rstate, lastSubmit>>
       ELSE LET rp == IF IsLagging(write_pos, read_pos[e])
                      THEN write_pos ELSE read_pos[e]
                available == Available(write_pos, rp)
                read == ToRead(Min(available, RenderBufLen), write_pos, rp)
                bytes == RingReadBytes(buffer, rp, read)
            IN /\ read_pos' = [read_pos EXCEPT ![e] = WrappingAdd(rp, read)]
               /\ UNCHANGED rendPc
               /\ IF read = 0
                  THEN /\ UNCHANGED rstate
                       /\ lastSubmit' =
                            IF IsLagging(write_pos, read_pos[e])
                            THEN Overrun(e)
                            ELSE lastSubmit
                  ELSE \E correction \in Corrections(e) :
                    LET start == SkipBytes(correction, read)
                        data == ApplyVolumeF32(SubSeq(bytes, start + 1, read),
                                               volume_level)
                    IN IF rstate[e] # "Running"
                       THEN /\ rstate' = [rstate EXCEPT ![e] = "Error"]
                            /\ lastSubmit' = [id |-> e, data |-> data,
                                              result |-> "NotRunning",
                                              correction |-> correction,
                                              frames |-> 0]
                       ELSE \E res \in WriteFrames(data) :
                            /\ rstate' = [rstate EXCEPT ![e] =
                                 IF res.ok THEN "Running" ELSE "Error"]
                            /\ lastSubmit' =
                                 [id |-> e, data |-> data,
                                  result |-> IF res.ok THEN "Ok"
                                             ELSE "HostError",
                                  correction |-> correction,
                                  frames |-> res.frames]
    /\ UNCHANGED <<buffer, write_pos, ringStepVars, engineVars, apiVars, capPc,
                   capStarted, volPc, monPc, monEvent, controlsLock, chanVars,
                   callbackArmed, hostMuted, audioLeft, lastBatch,
                   capture_buffer>>

\* C39: when the stop flag is set, a render thread whose stream was
\* started leaves its loop and stops the host stream of its endpoint
\* before it terminates, whether the renderer is Running or in Error.
StreamStoppedOnExit ==
    [][\A e \in Endpoints :
         (rendPc[e] = "loop" /\ rendPc'[e] = "none")
            => stop_flag /\ StopsHostStream(rstate[e])]_vars

\* ------------------------------------------------------ device/monitor.rs
DefaultChanged(flow, id) ==
    [kind |-> "DefaultChanged", data_flow |-> flow, device_id |-> id]

Removed(id) == [kind |-> "Removed", device_id |-> id]

\* the notifications the host raises: eRender is data_flow 0
HostNotifications ==
    {DefaultChanged(0, id) : id \in DeviceIds}
    \cup {DefaultChanged(1, "e1"), Removed("e1")}

IsRenderDefault(ev) == ev.kind = "DefaultChanged" /\ ev.data_flow = 0

\* the receiver of the DeviceEvent channel exists: start() holds it until
\* it hands it to the monitor thread, which drops it on exit
DeviceEventRxAlive == apiPc = "renderers" \/ MonitorAlive

\* the host raises a notification: NotificationCallback::send_event blocks
\* on a full channel; with the receiver gone the send fails and the event
\* is dropped, which changes nothing
HostNotify(ev) ==
    /\ callbackArmed
    /\ DeviceEventRxAlive
    /\ Len(device_events) < DeviceEventCap
    /\ device_events' = Append(device_events, ev)
    /\ UNCHANGED <<ringVars, ringStepVars, engineVars, apiVars, workerVars,
                   capture_cmds, volume_events, sink, callbackArmed, hostMuted,
                   audioLeft, lastBatch, lastSubmit, capture_buffer>>

\* the user mutes or unmutes the default endpoint on the host
HostSetMute(muted) ==
    /\ hostMuted # muted
    /\ hostMuted' = muted
    /\ UNCHANGED <<ringVars, ringStepVars, engineVars, apiVars, workerVars,
                   chanVars, callbackArmed, audioLeft, lastBatch, lastSubmit,
                   capture_buffer>>

\* ----------------------------------------------------- device_monitor_thread
\* lines 662-676 and 716-723: the loop test and recv_timeout; a
\* render-flow DefaultChanged publishes the new default id, every other
\* event is only logged
MonitorRecv ==
    /\ monPc = "recv"
    /\ IF stop_flag
       THEN /\ monPc' = "none"
            /\ UNCHANGED <<device_events, current_default_id, monEvent>>
       ELSE IF device_events # <<>>
       THEN LET ev == Head(device_events) IN
            /\ device_events' = Tail(device_events)
            /\ IF IsRenderDefault(ev)
               THEN /\ current_default_id' = ev.device_id
                    /\ monEvent' = ev.device_id
                    /\ monPc' = "sendCapture"
               ELSE /\ monPc' = "recv"
                    /\ UNCHANGED <<current_default_id, monEvent>>
       ELSE /\ monPc' = IF callbackArmed THEN "recv" ELSE "none"
            /\ UNCHANGED <<device_events, current_default_id, monEvent>>
    /\ UNCHANGED <<ringVars, ringStepVars, ring_new, config, state, stop_flag,
                   capture_handle, volume_handle, monitor_handle,
                   render_handles, device_monitor, renderer_controls, paused,
                   device_names, event_tx, ring_set, master_id, slaves,
                   slave_state, volume_level, apiVars, capPc, capStarted, volPc, rendPc,
                   rstate, controlsLock, capture_cmds, volume_events, sink,
                   hostVars>>

\* a send that waits for room whether or not anyone will receive
CanSendAlive(n, cap, rxAlive) == n < cap /\ rxAlive

\* a send on a bounded channel holding n of cap messages: it waits while
\* the channel is full and its receiver lives, fails once the receiver is
\* gone; the count afterwards
CanSend(n, cap, rxAlive) == ~rxAlive \/ n < cap
AfterSend(n, rxAlive) == IF rxAlive THEN n + 1 ELSE n

\* lines 678-681: capture_cmd_tx.send(Reinitialize)
MonitorSendCapture ==
    /\ monPc = "sendCapture"
    /\ CanSend(capture_cmds, CaptureCmdCap, CaptureAlive)
    /\ capture_cmds' = AfterSend(capture_cmds, CaptureAlive)
    /\ monPc' = "sendVolume"
    /\ UNCHANGED <<ringVars, ringStepVars, engineVars, apiVars, capPc,
                   capStarted, volPc, monEvent, rendPc, rstate, controlsLock,
                   device_events, volume_events, sink, hostVars>>

\* lines 683-684: volume_event_tx.send(event)
MonitorSendVolume ==
    /\ monPc = "sendVolume"
    /\ CanSend(volume_events, VolumeEventCap, VolumeAlive)
    /\ volume_events' = AfterSend(volume_events, VolumeAlive)
    /\ monPc' = "pause"
    /\ UNCHANGED <<ringVars, ringStepVars, engineVars, apiVars, capPc,
                   capStarted, volPc, monEvent, rendPc, rstate, controlsLock,
                   device_events, capture_cmds, sink, hostVars>>

\* a monitor that leaves every flag as it is
PausedUntouched(flags, controls, id) == flags

\* flags that let only the renderers other than the new default play
OthersResumed(flags, controls, id) ==
    [e \in Endpoints |-> e \in controls /\ e = id]

\* the flags after the loop of lines 690-702 for the new default id
PausedAfterDefault(flags, controls, id) ==
    [e \in Endpoints |-> IF e \in controls /\ e = id THEN TRUE ELSE flags[e]]

\* lines 686-707: lock renderer_controls, pause the renderer of the new
\* default; the guard lives to the end of the block (line 713)
MonitorPause ==
    /\ monPc = "pause"
    /\ controlsLock = "free"
    /\ controlsLock' = "monitor"
    /\ paused' = PausedAfterDefault(paused, renderer_controls, monEvent)
    /\ monPc' = "sendSink"
    /\ UNCHANGED <<ringVars, ringStepVars, ring_new, config, state, stop_flag,
                   capture_handle, volume_handle, monitor_handle,
                   render_handles, device_monitor, renderer_controls,
                   device_names, current_default_id, event_tx, ring_set,
                   master_id, slaves, slave_state, volume_level, apiVars, capPc,
                   capStarted, volPc, monEvent, rendPc, rstate, chanVars, hostVars>>

\* lines 709-713: engine_event_tx.send(DefaultDeviceChanged) with the
\* controls guard still held, then the guard is dropped
MonitorSendSink ==
    /\ monPc = "sendSink"
    /\ IF event_tx
       THEN sink < SinkCap /\ sink' = sink + 1
       ELSE UNCHANGED sink
    /\ controlsLock' = "free"
    /\ monEvent' = NoDevice
    /\ monPc' = "recv"
    /\ UNCHANGED <<ringVars, ringStepVars, engineVars, apiVars, capPc,
                   capStarted, volPc, rendPc, rstate, device_events,
                   capture_cmds, volume_events, hostVars>>

\* ------------------------------------------------------------------- Spec
RingIdle ==
    /\ buffer = EmptyRing
    /\ write_pos = 0
    /\ read_pos = [e \in Endpoints |-> 0]
    /\ wr = NoWrite
    /\ rd = NoRead
    /\ created = FALSE
    /\ written = <<>>
    /\ published = 0
    /\ subAt = 0
    /\ readLog = <<>>
    /\ lapped = FALSE

\* Spec: the life cycle of one engine (start, its failures, stop, start
\* again) with every worker thread, on a host where nothing is playing
\* and no notification is raised
Init ==
    /\ RingIdle
    /\ EngineNew
    /\ audioLeft = 0

StartStep ==
    \/ SetEventChannel
    \/ StartCall
    \/ StartBody
    \/ StartSpawnWorkers
    \/ StartRenderer
    \/ StartFinish

StopStep ==
    \/ StopCall
    \/ StopBody
    \/ StopJoinCapture
    \/ StopJoinVolume
    \/ StopJoinMonitor
    \/ StopJoinRenderer
    \/ StopFinish

ControlStep ==
    \/ \E id \in Endpoints : PauseCall(id)
    \/ \E id \in Endpoints : ResumeCall(id)
    \/ PauseRenderer
    \/ ResumeRenderer
    \/ ControllerDrain
    \/ GetDeviceStatuses

CaptureStep == CaptureIterate
VolumeStep == VolumeIterate
MonitorStep == MonitorRecv
MonitorHandle ==
    \/ MonitorSendCapture
    \/ MonitorSendVolume
    \/ MonitorPause
    \/ MonitorSendSink
RenderStep == \E e \in Endpoints : RenderIterate(e)
StatusStep ==
    \/ StatusesCall
    \/ GetDeviceStatuses
WorkerStart ==
    \/ CaptureOpen
    \/ VolumeInit
    \/ \E e \in Endpoints : RenderStart(e)

Next ==
    \/ StartStep
    \/ StopStep
    \/ WorkerStart
    \/ CaptureStep
    \/ VolumeStep
    \/ MonitorStep
    \/ RenderStep
    \/ StatusStep

Spec == Init /\ [][Next]_vars

\* the step in which the call at pc returns to its caller
Returns(pc) == apiPc = pc /\ apiPc' = "idle"

\* C5: when the engine state is Running, start() returns AlreadyRunning
\* and changes nothing: state, stop flag, handles, ring, renderer controls,
\* clock-sync registration, default id, and no thread is spawned.
StartRefusedWhenRunning ==
    [][(apiPc = "start" /\ state = "Running" /\ apiPc' # apiPc)
         => /\ apiPc' = "idle"
            /\ lastResult' = "AlreadyRunning"
            /\ UNCHANGED <<engineVars, ringVars, workerVars, chanVars>>]_vars

StartRefusedSeen ==
    apiPc = "idle" /\ state = "Running" /\ lastResult = "AlreadyRunning"

\* C6: a failure to open one endpoint does not fail start(): the pass of
\* start() over the target endpoints never ends the call with an error.
EndpointFailureKeepsStart ==
    [][Returns("renderers") => lastResult' = "Ok"]_vars

\* C7: when the configuration resolves to no target endpoint, start()
\* returns NoHdmiDevices, the state stays Uninitialized or Stopped, and no
\* worker thread is spawned: start() goes on to spawn threads only with
\* a non-empty list of targets, and at a NoHdmiDevices return no thread
\* lives and no handle is held.
NoTargetsNoStart ==
    [][/\ (apiPc = "start" /\ apiPc' = "spawn") => targets' # <<>>
       /\ (Returns("start") /\ lastResult' = "NoHdmiDevices")
            => /\ \E all \in HostEnumerations :
                    GetTargetDevices(config, all) = <<>>
               /\ state \in {"Uninitialized", "Stopped"}
               /\ state' = state
               /\ NoLiveWorker' /\ NoHandle'
               /\ UNCHANGED workerVars]_vars

NoTargetsAfterStop ==
    apiPc = "idle" /\ state = "Stopped" /\ lastResult = "NoHdmiDevices"

\* C21 as stated: the engine state changes only from Uninitialized to
\* Running by a successful start, from Running to ShuttingDown and from
\* ShuttingDown to Stopped by stop.
StateChangesOnlyAsListed ==
    [][state' # state
         => \/ /\ state = "Uninitialized" /\ state' = "Running"
               /\ apiPc = "renderers" /\ lastResult' = "Ok"
            \/ /\ state = "Running" /\ state' = "ShuttingDown"
               /\ apiPc = "stop"
            \/ /\ state = "ShuttingDown" /\ state' = "Stopped"
               /\ apiPc = "joinRenderers"]_vars

\* C21 as amended: the engine state changes only from Uninitialized or
\* Stopped to Running by a successful start, from Running to ShuttingDown
\* and from ShuttingDown to Stopped by stop.
StateChangesWithRestart ==
    [][state' # state
         => \/ /\ state \in {"Uninitialized", "Stopped"} /\ state' = "Running"
               /\ apiPc = "renderers" /\ lastResult' = "Ok"
            \/ /\ state = "Running" /\ state' = "ShuttingDown"
               /\ apiPc = "stop"
            \/ /\ state = "ShuttingDown" /\ state' = "Stopped"
               /\ apiPc = "joinRenderers"]_vars

\* a start() on a Stopped engine has adopted its renderers and is about
\* to store Running
RestartAboutToRun ==
    /\ state = "Stopped"
    /\ apiPc = "renderers"
    /\ targets = <<>>
    /\ renderer_controls # {}

\* C26: get_device_statuses returns exactly one row per adopted renderer,
\* with enabled true, paused equal to the renderer's paused flag and
\* is_system_default true exactly when the renderer id is the current
\* default id; on an engine that is not running (before start, after stop)
\* it returns no row.
StatusesContract ==
    [][Returns("statuses")
         => /\ {row.id : row \in DeviceStatuses} = renderer_controls
            /\ Cardinality(DeviceStatuses) = Cardinality(renderer_controls)
            /\ \A row \in DeviceStatuses :
                  /\ row.is_enabled
                  /\ row.is_paused = paused[row.id]
                  /\ row.is_system_default <=> (row.id = current_default_id)
            /\ (state # "Running" => DeviceStatuses = {})]_vars

\* C10: in every state where the engine is Running and the stop flag is
\* false, the capture worker is alive.
CaptureAliveWhileRunning ==
    (state = "Running" /\ ~stop_flag) => CaptureAlive

\* the errors start() returns after the state check let it go on
StartFailures ==
    {"CaptureError", "EnumerationError", "NoHdmiDevices", "MonitorError",
     "DeviceError"}

\* C32: when start() has returned an error, no worker thread it spawned is
\* left running: a stop() (or the drop of the engine, which calls stop())
\* that follows the failed start() returns with no live worker.
StopAfterFailedStartLeavesNoWorker ==
    [][(Returns("stop") /\ lastResult \in StartFailures) => NoLiveWorker']_vars

\* ---------------------------------------------------------------- CtlSpec
\* the engine of the tray controller after a successful start() with both
\* endpoints adopted, every worker in its loop: notifications, the
\* monitor's handling, pause/resume, the event sink, and stop()

Spawned(default, cap, vol) ==
    /\ ring_new = EngineRing
    /\ config = TrayConfig
    /\ state = "Running"
    /\ stop_flag = FALSE
    /\ capture_handle = TRUE
    /\ volume_handle = TRUE
    /\ monitor_handle = TRUE
    /\ render_handles = <<"e1", "e2">>
    /\ device_monitor = TRUE
    /\ renderer_controls = Endpoints
    /\ paused = [e \in Endpoints |->
                   e = default \/ ShouldDeviceStartPaused(TrayConfig, e)]
    /\ device_names = Endpoints
    /\ current_default_id = default
    /\ event_tx = TRUE
    /\ ring_set = TRUE
    /\ master_id = "e1"
    /\ slaves = {"e2"}
    /\ slave_state = ClockSyncNew.slave_state
    /\ volume_level = 1
    /\ apiPc = "idle"
    /\ apiArg = NoDevice
    /\ targets = <<>>
    /\ lastResult = "Ok"
    /\ capPc = cap
    /\ capStarted = (cap = "loop")
    /\ volPc = vol
    /\ rendPc = [e \in Endpoints |-> "loop"]
    /\ rstate = [e \in Endpoints |-> "Running"]
    /\ device_events = <<>>
    /\ capture_cmds = 0
    /\ volume_events = 0
    /\ callbackArmed = TRUE
    /\ hostMuted = FALSE
    /\ lastSubmit = NoSubmit
    /\ lastBatch = NoBatch
    /\ capture_buffer = NoClaim

\* every worker has passed its start-up and runs its loop
Started(default) == Spawned(default, "loop", "loop")

\* the monitor thread waits for a notification
MonitorWaiting ==
    /\ monPc = "recv"
    /\ monEvent = NoDevice
    /\ controlsLock = "free"
    /\ sink = 0

\* the monitor thread holds the controls mutex and waits for room in the
\* caller's full EngineEvent channel (a state CtlSpec reaches)
MonitorBlocked ==
    /\ monPc = "sendSink"
    /\ monEvent = OtherDevice
    /\ controlsLock = "monitor"
    /\ sink = SinkCap

CtlInit ==
    /\ RingIdle
    /\ Started(OtherDevice)
    /\ MonitorWaiting
    /\ audioLeft = 0

CtlNext ==
    \/ \E ev \in HostNotifications : HostNotify(ev)
    \/ MonitorStep
    \/ MonitorHandle
    \/ ControlStep
    \/ StopStep
    \/ CaptureStep
    \/ VolumeStep
    \/ RenderStep

CtlSpec == CtlInit /\ [][CtlNext]_vars

\* C3: once stop() has returned on a started engine the state is Stopped,
\* the capture, volume, monitor and every renderer thread have terminated
\* and their handles are gone, the renderer controls, device names and
\* current default id are cleared; a further stop() returns Ok and
\* changes no state.
StoppedIsClean ==
    /\ [](state = "Stopped"
           => /\ NoLiveWorker
              /\ NoHandle
              /\ renderer_controls = {}
              /\ device_names = {}
              /\ current_default_id = NoDevice)
    /\ [][(apiPc = "stop" /\ state = "Stopped" /\ apiPc' # apiPc)
            => /\ apiPc' = "idle"
               /\ lastResult' = "Ok"
               /\ UNCHANGED <<engineVars, ringVars, workerVars, chanVars,
                              hostVars>>]_vars

StopOnStopped == apiPc = "stop" /\ state = "Stopped" /\ lastResult = "Ok"

\* the threads of the process are scheduled, and the controller's loop
\* (tray/controller.rs:94-125) comes back to its event channel whenever
\* no call into the engine is in progress; which calls the user makes and
\* which notifications the host raises is left open
FairCtlSpec ==
    /\ CtlSpec
    /\ WF_vars(MonitorStep)
    /\ WF_vars(MonitorHandle)
    /\ WF_vars(CaptureStep)
    /\ WF_vars(VolumeStep)
    /\ \A e \in Endpoints : WF_vars(RenderIterate(e))
    /\ WF_vars(PauseRenderer \/ ResumeRenderer \/ GetDeviceStatuses)
    /\ WF_vars(ControllerDrain)
    /\ WF_vars(StopBody \/ StopJoinCapture \/ StopJoinVolume
                 \/ StopJoinMonitor \/ StopJoinRenderer \/ StopFinish)

\* C2: after a render-flow DefaultChanged naming an adopted endpoint e is
\* delivered to the monitor's channel, the paused flag of e's renderer
\* eventually becomes true (unless the engine is being stopped).
DefaultBecomesPaused ==
    \A e \in Endpoints :
      (/\ e \in renderer_controls
       /\ \E i \in DOMAIN device_events :
            device_events[i] = DefaultChanged(0, e))
        ~> (paused[e] \/ stop_flag)

\* C4: from every Running state a call to stop() terminates: the engine
\* reaches Stopped.
StopTerminates ==
    (apiPc = "stop" /\ state = "Running") ~> (state = "Stopped")

\* the steps of the monitor thread for one render-flow DefaultChanged, in
\* the order of the claim: each step is the only one that has its effect,
\* and the thread goes from each to the next
MonitorStepsInOrder ==
    /\ (monPc' # monPc)
         => \/ /\ monPc = "recv" /\ monPc' = "sendCapture"
               /\ device_events # <<>>
               /\ IsRenderDefault(Head(device_events))
               /\ device_events' = Tail(device_events)
               /\ current_default_id' = Head(device_events).device_id
               /\ UNCHANGED <<capture_cmds, volume_events, paused, sink>>
            \/ /\ monPc = "sendCapture" /\ monPc' = "sendVolume"
               /\ capture_cmds' = IF CaptureAlive THEN capture_cmds + 1
                                                  ELSE capture_cmds
               /\ UNCHANGED <<current_default_id, volume_events, paused, sink>>
            \/ /\ monPc = "sendVolume" /\ monPc' = "pause"
               /\ volume_events' = IF VolumeAlive THEN volume_events + 1
                                                  ELSE volume_events
               /\ UNCHANGED <<current_default_id, capture_cmds, paused, sink>>
            \/ /\ monPc = "pause" /\ monPc' = "sendSink"
               /\ paused' = [e \in Endpoints |->
                               IF e = current_default_id /\ e \in renderer_controls
                               THEN TRUE ELSE paused[e]]
               /\ UNCHANGED <<current_default_id, capture_cmds, volume_events, sink>>
            \/ /\ monPc = "sendSink" /\ monPc' = "recv"
               /\ sink' = IF event_tx THEN sink + 1 ELSE sink
               /\ UNCHANGED <<current_default_id, capture_cmds, volume_events, paused>>
            \/ /\ monPc = "recv" /\ monPc' = "none"
               /\ UNCHANGED <<current_default_id, capture_cmds, volume_events,
                              paused, sink>>
    /\ (capture_cmds' > capture_cmds) => monPc = "sendCapture" /\ monPc' # monPc
    /\ (volume_events' > volume_events) => monPc = "sendVolume" /\ monPc' # monPc
    /\ (sink' > sink) => monPc = "sendSink" /\ monPc' # monPc
    /\ (current_default_id' \notin {current_default_id, NoDevice})
         => monPc = "recv" /\ monPc' = "sendCapture"

\* the safety half of C27, which the monitor thread keeps
MonitorOrderKept == [][MonitorStepsInOrder]_vars

\* C27: for each render-flow DefaultChanged the monitor thread takes, it
\* performs in this order and each exactly once: publish the id as the
\* current default, send one Reinitialize to the capture thread, forward
\* the event to the volume thread, set the paused flag of the adopted
\* renderer with that id, emit DefaultDeviceChanged to the external sink
\* if one is registered; having taken the event it gets through all five.
MonitorHandlesEventInOrder ==
    /\ [][MonitorStepsInOrder]_vars
    /\ (monPc = "sendCapture") ~> (monPc = "recv")

\* C38: within stop() the stop flag is set before any worker is joined,
\* and the DeviceMonitor is dropped and its callback disarmed before the
\* monitor thread is joined: the monitor thread is never joined while the
\* callback can still deliver events.
StopDisarmsBeforeJoin ==
    [][/\ (apiPc \in {"joinCapture", "joinVolume", "joinMonitor",
                      "joinRenderers"})
            => stop_flag
       /\ (apiPc = "joinMonitor" /\ apiPc' # apiPc)
            => ~device_monitor /\ ~callbackArmed]_vars

\* the monitor thread is in a send that cannot complete now: the caller's
\* EngineEvent channel is full
SinkSendWaits == monPc = "sendSink" /\ event_tx /\ sink = SinkCap

\* C33: the monitor thread never waits in a channel send while it holds
\* the renderer-controls mutex, so a caller of pause_renderer,
\* resume_renderer or get_device_statuses is never kept from the mutex by
\* a send that waits for that caller to drain the channel.
MonitorSendsWithoutControls == SinkSendWaits => controlsLock # "monitor"

DefaultPlays(e) ==
    e \in renderer_controls /\ current_default_id = e /\ ~paused[e]

CaptureReopensByItself ==
    (capPc = "loop" /\ ~capStarted /\ ~stop_flag /\ capture_cmds = 0)
      => ENABLED (CaptureIterate /\ capStarted')

MaxPackets == 2

PipeInit ==
    /\ RingIdle
    /\ Started(OtherDevice)
    /\ (MonitorWaiting \/ MonitorBlocked)
    /\ audioLeft = MaxPackets

PipeNext ==
    \/ CaptureStep
    \/ RenderStep
    \/ \E id \in Endpoints : PauseCall(id)
    \/ \E id \in Endpoints : ResumeCall(id)
    \/ PauseRenderer
    \/ ResumeRenderer

PipeSpec == PipeInit /\ [][PipeNext]_vars

\* C8: nothing downstream of the ring blocks the producer: whenever the
\* host has a packet for the running capture loop, the iteration that
\* writes it is enabled, and the write moves the writer on by the bytes it
\* was given without touching a reader position, a pause flag, a renderer
\* state or the controls mutex, also when a reader is stalled or lapped.
CaptureNeverWaits ==
    /\ []((capPc = "loop" /\ ~stop_flag /\ capStarted /\ audioLeft > 0)
            => ENABLED (CaptureIterate /\ write_pos' # write_pos))
    /\ [][write_pos' # write_pos
            => /\ write_pos' = WrappingAdd(write_pos,
                                 Min(TempBufLen, ByteCount(lastBatch'.frames)))
               /\ UNCHANGED <<read_pos, paused, rstate, rendPc,
                              controlsLock>>]_vars

WroteOverLappedReader ==
    /\ lastBatch.frames > 0
    /\ controlsLock = "monitor"
    /\ \E e \in Endpoints :
         IsLagging(write_pos, read_pos[e]) /\ ~IsLagging(lastBatch.before, read_pos[e])

\* C9: every non-empty batch reaches the ring in full: the writer position
\* has advanced by num_frames * block_align bytes for the batch, and a
\* batch flagged silent has put that many zero bytes into the ring.
BatchDeliveredInFull ==
    lastBatch.frames > 0
      => /\ WrappingSub(write_pos, lastBatch.before) = ByteCount(lastBatch.frames)
         /\ lastBatch.silent
              => \A i \in 0..(ByteCount(lastBatch.frames) - 1) :
                   i < Capacity => buffer[Slot(lastBatch.before, i)] = 0

\* C12: a submit error is transient: once write_frames has failed on the
\* host, a later iteration of that renderer that has bytes to play can
\* submit them to the host and succeed.
SubmitErrorIsTransient ==
    \A e \in Endpoints :
      (/\ rendPc[e] = "loop" /\ ~stop_flag /\ ~paused[e]
       /\ rstate[e] = "Error"
       /\ Available(write_pos, read_pos[e]) > 0)
        => ENABLED (RenderIterate(e) /\ lastSubmit'.result = "Ok")

PausedIteration(e) == RenderIterate(e) /\ ~stop_flag /\ paused[e]

\* what C28 says of a paused iteration apart from the silence: no ring
\* read, and the reader ends at the writer position it observed
PausedIterationCatchesUp ==
    [][\A e \in Endpoints :
         PausedIteration(e)
           => /\ read_pos'[e] = write_pos
              /\ UNCHANGED <<buffer, write_pos, rstate, lastSubmit>>]_vars

\* C28: an iteration in which a renderer finds its paused flag set reads
\* nothing from the ring, pushes silence to its endpoint in whatever
\* lifecycle state the renderer is, and ends with the reader position
\* equal to the writer position it observed.
PausedIterationServices ==
    [][\A e \in Endpoints :
         PausedIteration(e)
           => /\ WriteSilence(rstate[e])
              /\ read_pos'[e] = write_pos
              /\ UNCHANGED <<buffer, write_pos, rstate, lastSubmit>>]_vars

\* the step in which renderer e, not paused and not lagging, reads bytes
\* from the ring and advances its reader past them
ReadsFromRing(e) ==
    /\ rendPc[e] = "loop" /\ ~stop_flag /\ ~paused[e]
    /\ ~IsLagging(write_pos, read_pos[e])
    /\ read_pos'[e] # read_pos[e]

\* C31: no silent loss on the render path: of the bytes a renderer that is
\* not paused reads from the ring in an iteration, every one is either
\* accepted by the endpoint or dropped by a positive correction, also when
\* the submit times out, finds the endpoint buffer full or is taken in
\* part (the cases in which write_frames returns Ok).
NoSilentLoss ==
    [][\A e \in Endpoints :
         (ReadsFromRing(e) /\ lastSubmit'.result = "Ok")
           => LET read == WrappingSub(read_pos'[e], read_pos[e])
              IN lastSubmit'.frames * BlockAlign
                   + SkipBytes(lastSubmit'.correction, read) = read]_vars

\* ---------------------------------------------------------------- VolSpec
\* the data path of the started engine while the host plays and the user
\* mutes and unmutes the default endpoint
VolInit ==
    /\ RingIdle
    /\ Started(OtherDevice)
    /\ MonitorWaiting
    /\ audioLeft = MaxPackets

VolNext ==
    \/ \E muted \in BOOLEAN : HostSetMute(muted)
    \/ VolumeStep
    \/ CaptureStep
    \/ RenderStep
    \/ \E id \in Endpoints : ResumeCall(id)
    \/ ResumeRenderer

VolSpec == VolInit /\ [][VolNext]_vars

\* the step in which renderer e passes bytes to write_frames
Submits(e) ==
    /\ rendPc[e] = "loop" /\ ~stop_flag /\ ~paused[e]
    /\ ~IsLagging(write_pos, read_pos[e])
    /\ read_pos'[e] # read_pos[e]

\* the bytes renderer e takes from the ring in the step, read by the
\* positions before and after it
BytesRead(e) ==
    [k \in 1..((read_pos'[e] - read_pos[e]) % UsizeMod)
       |-> buffer[(read_pos[e] + k - 1) % Capacity]]

\* bytes without its first n elements
DropHead(bytes, n) == [k \in 1..(Len(bytes) - n) |-> bytes[n + k]]

\* what a positive correction c leaves of the bytes read
AfterSkip(bytes, c) ==
    IF c * BlockAlign < Len(bytes) THEN DropHead(bytes, c * BlockAlign)
    ELSE <<>>

RingWrittenOnlyByCapture ==
    [][/\ (<<write_pos, buffer>>' # <<write_pos, buffer>>)
            => /\ capPc = "loop" /\ lastBatch'.before = write_pos
               /\ UNCHANGED <<read_pos, rendPc, rstate, lastSubmit>>
       /\ (<<read_pos, rendPc, rstate, lastSubmit>>'
              # <<read_pos, rendPc, rstate, lastSubmit>>)
            => UNCHANGED <<write_pos, buffer>>
       /\ \A e \in Endpoints :
            (read_pos'[e] # read_pos[e])
              => /\ rendPc[e] = "loop"
                 /\ \A o \in Endpoints \ {e} : read_pos'[o] = read_pos[o]]_vars

\* the capture worker has written, one renderer has read all of it and
\* the other has not moved
OneReaderMoved ==
    /\ write_pos # 0
    /\ lastSubmit.id = "e1" /\ lastSubmit.result = "Ok"
    /\ read_pos["e1"] = write_pos
    /\ read_pos["e2"] = 0

Positions == {0, 100, 4000}
ElapsedSamples == {0, 480, 3000}

\* what no call into the ClockSync touches
outsideClock ==
    <<ringVars, ringStepVars, ring_new, config, state, stop_flag, capture_handle,
      volume_handle, monitor_handle, render_handles, device_monitor,
      renderer_controls, paused, device_names, current_default_id, event_tx,
      ring_set, volume_level, apiVars, workerVars, chanVars, hostVars>>

ClockSetMaster(id) ==
    /\ master_id = NoDevice
    /\ master_id' = SetMaster(ClockSync, id).master_id
    /\ UNCHANGED <<slaves, slave_state, outsideClock>>

ClockRegisterSlave(id) ==
    /\ master_id # NoDevice
    /\ slaves' = RegisterSlave(ClockSync, id).slaves
    /\ slave_state' = RegisterSlave(ClockSync, id).slave_state
    /\ UNCHANGED <<master_id, outsideClock>>

ClockUpdateSlave(id, position, elapsed_samples) ==
    /\ slave_state' =
         UpdateSlave(ClockSync, id, position, elapsed_samples).slave_state
    /\ UNCHANGED <<master_id, slaves, outsideClock>>

ClockGetCorrection(id) ==
    /\ slave_state' = GetCorrection(ClockSync, id).cs.slave_state
    /\ UNCHANGED <<master_id, slaves, outsideClock>>

ClockInit == Init /\ config = TrayConfig

ClockNext ==
    \/ \E id \in Endpoints : ClockSetMaster(id)
    \/ \E id \in Endpoints : ClockRegisterSlave(id)
    \/ \E id \in Endpoints, position \in Positions,
          elapsed_samples \in ElapsedSamples :
         ClockUpdateSlave(id, position, elapsed_samples)
    \/ \E id \in Endpoints : ClockGetCorrection(id)

ClockSpec == ClockInit /\ [][ClockNext]_vars

\* C15: once the master is set, is_master holds for exactly one id, the
\* master is not a key of the slave map, and get_correction(master)
\* returns 0 and leaves the ClockSync as it was.
MasterInvariance ==
    master_id # NoDevice
      => /\ Cardinality({id \in DeviceIds : IsMaster(ClockSync, id)}) = 1
         /\ master_id \notin slaves
         /\ GetCorrection(ClockSync, master_id) = [ret |-> 0, cs |-> ClockSync]

MasterBesideCorrectedSlave ==
    /\ master_id = "e1"
    /\ slaves = {"e2"}
    /\ slave_state["e2"].pending_correction # 0
    /\ slave_state["e1"] = SlaveStateNew

\* C16: update_slave(id, pos) on a registered slave leaves the drift
\* (7 * old + delta) / 8, the quotient rounded towards zero, with
\* delta = (pos - last_pos) - elapsed_samples, and a pending correction of
\* sign(drift) * min(|drift|, 48) when |drift| > 240 and 0 otherwise; in
\* every state |pending_correction| <= 48 and a pending correction that
\* is not 0 has the sign of the drift.
UpdateSlaveArithmetic ==
    \A id \in slaves :
      LET old == slave_state[id] IN
      /\ Abs(old.pending_correction) <= 48
      /\ old.pending_correction # 0
           => Signum(old.pending_correction) = Signum(old.drift_samples)
      /\ \A pos \in Positions, elapsed \in ElapsedSamples :
           LET new == UpdateSlave(ClockSync, id, pos, elapsed).slave_state[id]
               delta == (pos - old.last_position) - elapsed
               sum == 7 * old.drift_samples + delta
               drift == IF sum >= 0 THEN sum \div 8 ELSE -((-sum) \div 8)
               mag == IF drift < 0 THEN -drift ELSE drift
           IN /\ new.drift_samples = drift
              /\ new.last_position = pos
              /\ new.pending_correction =
                   IF mag <= 240 THEN 0
                   ELSE IF drift > 0 THEN (IF mag < 48 THEN mag ELSE 48)
                   ELSE -(IF mag < 48 THEN mag ELSE 48)

LargestCorrectionPending ==
    \E id \in slaves :
      /\ slave_state[id].pending_correction = -48
      /\ slave_state[id].drift_samples < -240
      /\ slave_state[id].last_position = 100

\* C17: get_correction(id) on a slave with pending correction p returns
\* p, takes p off the drift and leaves 0 pending, so that the call after
\* it returns 0 and changes nothing; for an id that is not a registered
\* slave it returns 0 and changes nothing.
CorrectionIsOneShot ==
    \A id \in DeviceIds :
      LET first == GetCorrection(ClockSync, id)
          second == GetCorrection(first.cs, id)
          slave == slave_state[id]
      IN IF id \in slaves
         THEN /\ first.ret = slave.pending_correction
              /\ first.cs =
                   [ClockSync EXCEPT !.slave_state[id] =
                      [last_position |-> slave.last_position,
                       drift_samples |-> slave.drift_samples
                                           - slave.pending_correction,
                       pending_correction |-> 0]]
              /\ second = [ret |-> 0, cs |-> first.cs]
         ELSE first = [ret |-> 0, cs |-> ClockSync]

CorrectionTaken ==
    \E id \in slaves :
      /\ slave_state[id].pending_correction = 0
      /\ Abs(slave_state[id].drift_samples) > DRIFT_THRESHOLD_SAMPLES

\* --------------------------------------------------------------- SyncSpec
\* a slave renderer that plays at the nominal rate: every iteration of its
\* loop submits one device period of audio, so the time between two of
\* its reports to the ClockSync is one period, and the endpoint's buffer
\* holds less than half the drift threshold of frames not yet played
\* frames of one device period (10 ms at 48 kHz)
NominalPeriod == 480
\* most frames waiting in the endpoint's buffer at a report
MaxPadding == 100
Paddings == {0, MaxPadding \div 2, MaxPadding}

\* HdmiRenderer::get_buffer_position: the padding stands for the position
GetBufferPosition(padding) == padding

\* render_thread, lines 788 and 805-812: the correction is fetched, the
\* frames are written, the position is reported
RenderSync(e, padding, elapsed_samples) ==
    /\ rendPc[e] = "loop" /\ ~IsMaster(ClockSync, e)
    /\ LET fetched == GetCorrection(ClockSync, e).cs
           reported == UpdateSlave(fetched, e, GetBufferPosition(padding),
                                   elapsed_samples)
       IN slave_state' = reported.slave_state
    /\ UNCHANGED <<master_id, slaves, outsideClock>>

SyncInit ==
    /\ RingIdle
    /\ Started(OtherDevice)
    /\ MonitorWaiting
    /\ audioLeft = 0

SyncNext ==
    \E e \in Endpoints, padding \in Paddings :
      RenderSync(e, padding, NominalPeriod)

SyncSpec == SyncInit /\ [][SyncNext]_vars

\* the render thread is scheduled
FairSyncSpec == SyncSpec /\ WF_vars(SyncNext)

\* C18: for a slave renderer that plays at the nominal rate the smoothed
\* drift settles and from then on stays within 240 samples of zero, and
\* no correction handed to the renderer exceeds 48 samples.
DriftSettlesWithinThreshold ==
    /\ <>[](\A id \in slaves :
              Abs(slave_state[id].drift_samples) <= DRIFT_THRESHOLD_SAMPLES)
    /\ [](\A id \in slaves :
            Abs(slave_state[id].pending_correction) <= MAX_CORRECTION_SAMPLES)

\* ------------------------------------------------------------ CaptureSpec
\* the capture loop step by step, with the claim and the release of the
\* host capture buffer, while the host changes the default endpoint, the
\* monitor thread orders Reinitialize and the caller stops the engine

\* the part of the state the capture loop leaves alone
outsideCapture ==
    <<read_pos, ringStepVars, engineVars, apiVars, volPc, monPc, monEvent,
      rendPc, rstate, controlsLock, device_events, volume_events, sink,
      callbackArmed, hostMuted, lastSubmit>>

\* a drop that never gives the packet back
NeverReleases(num_frames) == FALSE

\* Drop for CapturedFrames, capture.rs:290-298: ReleaseBuffer is called
\* when the value holds frames
ReleasesOnDrop(num_frames) == num_frames > 0

\* capture_thread, lines 554-585: the loop test and the command poll; a
\* Reinitialize stops the stream and opens the default endpoint again
CaptureLoopTop ==
    /\ capPc = "loop"
    /\ IF stop_flag
       THEN capPc' = "none" /\ capStarted' = FALSE /\ capture_cmds' = 0
       ELSE IF capture_cmds > 0
       THEN /\ capture_cmds' = capture_cmds - 1
            /\ \E reopen_ok \in BOOLEAN :
                 /\ capStarted' = reopen_ok
                 /\ capPc' = IF reopen_ok THEN "read" ELSE "loop"
       ELSE capPc' = "read" /\ UNCHANGED <<capStarted, capture_cmds>>
    /\ UNCHANGED <<buffer, write_pos, audioLeft, lastBatch, capture_buffer,
                   outsideCapture>>

\* LoopbackCapture::read_frames, capture.rs:161-210: a wait that times
\* out, a GetBuffer error or a GetBuffer of no frames hold nothing; a
\* GetBuffer of frames claims the packet.  CapturedFrames::empty
\* (capture.rs:239-249) makes its reference field with mem::zeroed, which
\* is undefined: the build either makes the value, which is dropped
\* without a release, or panics there, which ends the thread and drops
\* the capture
CaptureReadFrames ==
    /\ capPc = "read"
    /\ \E batch \in ReadOutcomes(capStarted) :
         IF batch.frames > 0
         THEN /\ capture_buffer' = [held |-> batch.frames,
                                    silent |-> batch.silent,
                                    releases |-> 0]
              /\ audioLeft' = audioLeft - 1
              /\ capPc' = "frames"
              /\ UNCHANGED <<capStarted, capture_cmds>>
         ELSE /\ \E built \in BOOLEAN :
                   IF built
                   THEN capPc' = "loop" /\ UNCHANGED <<capStarted, capture_cmds>>
                   ELSE capPc' = "none" /\ capStarted' = FALSE
                        /\ capture_cmds' = 0
              /\ UNCHANGED <<capture_buffer, audioLeft>>
    /\ UNCHANGED <<buffer, write_pos, lastBatch, outsideCapture>>

\* capture_thread, lines 589-592: copy_to the temp buffer, write to the
\* ring
CaptureWriteBatch ==
    /\ capPc = "frames"
    /\ LET data == CopyTo(capture_buffer.held, capture_buffer.silent,
                          TempBufLen)
           after == RingWrite(buffer, write_pos, data)
       IN /\ buffer' = after[1]
          /\ write_pos' = after[2]
          /\ lastBatch' = [frames |-> capture_buffer.held,
                           silent |-> capture_buffer.silent,
                           before |-> write_pos]
    /\ capPc' = "drop"
    /\ UNCHANGED <<capStarted, capture_cmds, audioLeft, capture_buffer,
                   outsideCapture>>

\* the end of the Ok arm, line 593: the CapturedFrames value is dropped
CaptureFramesDrop ==
    /\ capPc = "drop"
    /\ capture_buffer' =
         IF ReleasesOnDrop(capture_buffer.held)
         THEN [capture_buffer EXCEPT !.held = 0, !.releases = @ + 1]
         ELSE capture_buffer
    /\ capPc' = "loop"
    /\ UNCHANGED <<buffer, write_pos, capStarted, capture_cmds, audioLeft,
                   lastBatch, outsideCapture>>

CaptureInit ==
    /\ RingIdle
    /\ Started(OtherDevice)
    /\ MonitorWaiting
    /\ audioLeft = MaxPackets

CaptureNext ==
    \/ CaptureLoopTop
    \/ CaptureReadFrames
    \/ CaptureWriteBatch
    \/ CaptureFramesDrop
    \/ HostNotify(DefaultChanged(0, OtherDevice))
    \/ MonitorStep
    \/ MonitorHandle
    \/ StopCall
    \/ StopBody
    \/ StopJoinCapture

CaptureSpec == CaptureInit /\ [][CaptureNext]_vars

\* C37: every successful claim of the host capture buffer is followed by
\* exactly one release before the next claim and before the stream is
\* stopped or replaced, on every path: a packet is held only between the
\* claim and the drop of the same iteration, on a started stream and not
\* yet released; the drop releases it once; the next read_frames, a
\* Reinitialize, the stop of the stream and the end of the thread find
\* nothing held.
CaptureBufferReleasedOnce ==
    /\ [](/\ capture_buffer.held > 0
              => /\ capPc \in {"frames", "drop"}
                 /\ capStarted
                 /\ capture_buffer.releases = 0
          /\ capture_buffer.releases <= 1)
    /\ [][/\ (capPc = "drop" /\ capPc' # capPc)
               => /\ capture_buffer'.held = 0
                  /\ capture_buffer'.releases = 1
          /\ (capture_buffer'.held > capture_buffer.held)
               => (capture_buffer.held = 0 /\ capPc = "read")
          /\ (capStarted' # capStarted \/ capture_cmds' < capture_cmds
                \/ capPc' = "none")
               => (capture_buffer.held = 0 /\ capture_buffer'.held = 0)]_vars

\* every packet of the host was claimed, written and released, and the
\* stop flag is set
ReleasedBeforeStop ==
    /\ capPc = "loop" /\ stop_flag
    /\ lastBatch.frames > 0
    /\ capture_buffer.held = 0 /\ capture_buffer.releases = 1
    /\ audioLeft = 0

\* ---------------------------------------------------------------- NewSpec
\* RingBuffer::new for every size a caller can ask for, in a build with
\* overflow checks ("debug") and in one without ("release"), and the index
\* (pos & mask) that write and read compute for every position
Builds == {"debug", "release"}
Requests == 0..(UsizeMod - 1)
IsizeMax == Pow2(UsizeBits - 1) - 1

outsideNew ==
    <<ringVars, ringStepVars, config, state, stop_flag, capture_handle,
      volume_handle, monitor_handle, render_handles, device_monitor,
      renderer_controls, paused, device_names, current_default_id, event_tx,
      ring_set, master_id, slaves, slave_state, volume_level, apiVars,
      workerVars, chanVars, hostVars>>

\* RingBuffer::new, lines 21-31: next_power_of_two, capacity - 1, and the
\* vec! that refuses more than isize::MAX bytes
RingBufferNew(request, build) ==
    /\ ring_new.outcome = "none"
    /\ LET capacity == NextPowerOfTwo(request)
           panicked == [NoRing EXCEPT !.request = request, !.outcome = "panicked"]
       IN ring_new' =
            IF build = "debug" /\ NextPowerOfTwoOverflows(request) THEN panicked
            ELSE IF build = "debug" /\ capacity = 0 THEN panicked
            ELSE IF capacity > IsizeMax THEN panicked
            ELSE [NoRing EXCEPT !.request = request, !.outcome = "built",
                                !.capacity = capacity,
                                !.mask = WrappingSub(capacity, 1)]
    /\ UNCHANGED outsideNew

\* lines 51 and 79: the index of a position, pos & self.mask
MaskedIndex(pos) ==
    /\ ring_new.outcome = "built"
    /\ ring_new' = [ring_new EXCEPT !.pos = pos,
                                    !.index = BitAnd(pos, ring_new.mask),
                                    !.indexed = TRUE]
    /\ UNCHANGED outsideNew

NewInit ==
    /\ RingIdle
    /\ EngineFields
    /\ config = TrayConfig
    /\ audioLeft = 0
    /\ ring_new = NoRing

NewNext ==
    \/ \E request \in Requests, build \in Builds : RingBufferNew(request, build)
    \/ \E pos \in Requests : MaskedIndex(pos)

NewSpec == NewInit /\ [][NewNext]_vars

IsPowerOfTwo(c) == \E k \in 0..UsizeBits : c = Pow2(k)

\* C25: for every requested size, RingBuffer::new yields capacity equal to
\* the smallest power of two >= the request and mask = capacity - 1, and
\* every index (pos & mask) is within 0..capacity-1.
NewYieldsPowerOfTwo ==
    ring_new.outcome = "built"
        => /\ IsPowerOfTwo(ring_new.capacity)
           /\ ring_new.capacity >= ring_new.request
           /\ \A k \in 0..UsizeBits :
                 Pow2(k) >= ring_new.request => Pow2(k) >= ring_new.capacity
           /\ ring_new.mask = ring_new.capacity - 1
           /\ (ring_new.indexed => ring_new.index \in 0..(ring_new.capacity - 1))

\* ----------------------------------------------------------- ShutdownSpec
\* stop() on the started engine while the host plays: the capture loop
\* fills the ring, the render loops submit what they read and meet host
\* errors, and stop() sets the flag and joins the workers
ShutdownInit ==
    /\ RingIdle
    /\ Started(OtherDevice)
    /\ MonitorWaiting
    /\ audioLeft = MaxPackets

ShutdownNext ==
    \/ CaptureStep
    \/ VolumeStep
    \/ MonitorStep
    \/ RenderStep
    \/ StopStep

ShutdownSpec == ShutdownInit /\ [][ShutdownNext]_vars
\* ----------------------------------------------------------- DegradedSpec
\* the engine after start() returned Ok and the workers are past their
\* start-up: the capture worker runs its loop or has returned because the
\* host failed its open, the volume follower runs or has returned because
\* no tracker could be created; the host raises notifications and the
\* controller drains the engine events
DegradedInit ==
    /\ RingIdle
    /\ \E cap, vol \in {"loop", "none"} : Spawned(OtherDevice, cap, vol)
    /\ MonitorWaiting
    /\ audioLeft = 0

DegradedNext ==
    \/ \E ev \in HostNotifications : HostNotify(ev)
    \/ MonitorStep
    \/ MonitorHandle
    \/ CaptureStep
    \/ VolumeStep
    \/ ControllerDrain
    \/ GetDeviceStatuses

DegradedSpec == DegradedInit /\ [][DegradedNext]_vars

\* C40: pausing for feedback avoidance does not depend on the other
\* workers: when the capture worker or the volume follower has exited,
\* the monitor's send to it does not wait and changes nothing, the default
\* id the event carried stays published, the renderer of the new default
\* gets its paused flag set, and DefaultDeviceChanged goes to the caller's
\* channel.
MonitorPausesWithoutWorkers ==
    /\ []((monPc = "sendCapture" /\ ~CaptureAlive)
           => ENABLED MonitorSendCapture)
    /\ []((monPc = "sendVolume" /\ ~VolumeAlive)
           => ENABLED MonitorSendVolume)
    /\ []((monPc # "recv" /\ monPc # "none")
           => current_default_id = monEvent)
    /\ [][/\ (monPc = "sendCapture" /\ monPc' # monPc /\ ~CaptureAlive)
              => (monPc' = "sendVolume" /\ capture_cmds' = capture_cmds)
          /\ (monPc = "sendVolume" /\ monPc' # monPc /\ ~VolumeAlive)
              => (monPc' = "pause" /\ volume_events' = volume_events)
          /\ (monPc = "pause" /\ monPc' # monPc)
              => /\ monPc' = "sendSink"
                 /\ current_default_id' = monEvent
                 /\ (monEvent \in renderer_controls => paused'[monEvent])
          /\ (monPc = "sendSink" /\ monPc' # monPc)
              => (monPc' = "recv" /\ sink' = sink + 1)]_vars

\* the monitor has handled the change of the default to e1 with neither
\* the capture worker nor the volume follower alive: e1 is paused, the id
\* is published and the caller's channel holds the event
PausedWithoutWorkers ==
    /\ ~CaptureAlive /\ ~VolumeAlive
    /\ monPc = "recv"
    /\ current_default_id = "e1"
    /\ paused["e1"]
    /\ sink = 1

====
